---- MODULE Spec2Model ----
(***************************************************************************)
(* A state-machine model of the MCP tool servers of this repository:       *)
(*   - BraveClient (src/src/client.ts): the rate limiter and the search    *)
(*     operations, split at their network suspension points;               *)
(*   - the search tool handlers (src/src/tools/search.ts);                 *)
(*   - the dispatchers of the search server (src/src/server.ts) and of the *)
(*     weather server (src/unnamed/part_003);                              *)
(*   - the get_tech_update handler (src/src/tools/techUpdate.ts).          *)
(*                                                                         *)
(* JavaScript runs each handler to completion between two awaits, so one   *)
(* action is one synchronous block: everything from a call (or from the    *)
(* arrival of a response) up to the next await.  Date.now() is read as the *)
(* model clock `now`, which only Tick advances; a synchronous block reads  *)
(* one value of it.                                                        *)
(***************************************************************************)
EXTENDS Integers, Sequences, FiniteSets, TLC

(***************************************************************************)
(* Program constants and model bounds                                      *)
(***************************************************************************)
\* rateLimit.perSecond
PerSecond == 1
\* rateLimit.perMonth is 15000 in the source; the model scales it down so
\* that monthly exhaustion is reachable.
PerMonth == 3
\* the window length of checkRateLimit, in ms
WindowMs == 1000
\* the clock stops advancing here
MaxTime == 3100
\* tool invocations that may be in flight together
NumTasks == 2

Tasks == 1..NumTasks
\* the amounts by which the clock advances between two synchronous blocks:
\* lastReset + 1000 is the last instant of a window, lastReset + 1001 the
\* first instant after it
TickSteps == {1000, 1001}

VARIABLES
    now,            \* Date.now()
    requestCount,   \* BraveClient.requestCount: second, month, lastReset
    window,         \* history: the current window in the claims' sense
    httpSent,       \* history: number of fetch() calls the client has made
    task,           \* per invocation: where it is suspended
    last            \* the most recently completed invocation

vars == <<now, requestCount, window, httpSent, task, last>>

(***************************************************************************)
(* JavaScript values: thrown errors, tool results                          *)
(***************************************************************************)
\* thrown: something was thrown; inst: it is an Error; mcp: it is an McpError;
\* message: its .message; str: String(value)
NoError ==
    [thrown |-> FALSE, inst |-> FALSE, mcp |-> FALSE, code |-> "", message |-> "", str |-> ""]

\* new Error(message)
JsError(message) ==
    [thrown |-> TRUE, inst |-> TRUE, mcp |-> FALSE, code |-> "", message |-> message,
     str |-> "Error: " \o message]

\* a thrown value that is not an Error and has no .message, such as a string
JsNonError(str) ==
    [thrown |-> TRUE, inst |-> FALSE, mcp |-> FALSE, code |-> "", message |-> "", str |-> str]

\* new McpError(code, message)
McpError(code, message) ==
    [thrown |-> TRUE, inst |-> TRUE, mcp |-> TRUE, code |-> code, message |-> message,
     str |-> "McpError: " \o message]

NoOutcome == [kind |-> "none", isError |-> "undefined", content |-> <<>>, error |-> NoError]

\* a returned CallToolResult with one text block
ToolResult(isError, text) ==
    [kind |-> "result", isError |-> isError,
     content |-> <<[type |-> "text", text |-> text]>>, error |-> NoError]

\* an exception that leaves the request handler
Escaped(err) ==
    [kind |-> "throw", isError |-> "undefined", content |-> <<>>, error |-> err]

(***************************************************************************)
(* BraveClient.checkRateLimit                                              *)
(***************************************************************************)
RateLimitError == JsError("Rate limit exceeded")

\* resetWindow clearing the monthly counter as well
resetWindowAll(rc, t) ==
    IF t - rc.lastReset > WindowMs
    THEN [rc EXCEPT !.second = 0, !.month = 0, !.lastReset = t]
    ELSE rc

\* the window reset of checkRateLimit (client.ts 44-47)
resetWindow(rc, t) ==
    IF t - rc.lastReset > WindowMs
    THEN [rc EXCEPT !.second = 0, !.lastReset = t]
    ELSE rc

\* limitReached testing the per-second counter only
limitReachedSecondOnly(rc) ==
    rc.second >= PerSecond

\* limitReached with > for >= on the per-second counter
limitReachedOffByOne(rc) ==
    rc.second > PerSecond \/ rc.month >= PerMonth

\* the limit test of checkRateLimit (client.ts 48-51)
limitReached(rc) ==
    rc.second >= PerSecond \/ rc.month >= PerMonth

\* checkRateLimit counting every call, the limit test left out
checkRateLimitUnlimited(rc, t) ==
    LET r == resetWindow(rc, t) IN
    [ok |-> TRUE, rc |-> [r EXCEPT !.second = @ + 1, !.month = @ + 1]]

\* checkRateLimit counting the call before it tests the limits
checkRateLimitCountFirst(rc, t) ==
    LET r == resetWindow(rc, t)
        counted == [r EXCEPT !.second = @ + 1, !.month = @ + 1]
    IN [ok |-> ~(r.second >= PerSecond \/ r.month >= PerMonth), rc |-> counted]

\* checkRateLimit losing the monthly count of a successful call
checkRateLimitLostCount(rc, t) ==
    LET r == resetWindow(rc, t) IN
    IF limitReached(r)
    THEN [ok |-> FALSE, rc |-> r]
    ELSE [ok |-> TRUE, rc |-> [r EXCEPT !.second = @ + 1]]

\* checkRateLimit called at time t in rate state rc: whether it returned
\* (ok) or threw, and the rate state it leaves
checkRateLimit(rc, t) ==
    LET r == resetWindow(rc, t) IN
    IF limitReached(r)
    THEN [ok |-> FALSE, rc |-> r]
    ELSE [ok |-> TRUE, rc |-> [r EXCEPT !.second = @ + 1, !.month = @ + 1]]

(***************************************************************************)
(* History of the current window, kept beside the code's own counters: a   *)
(* call made more than WindowMs after the window start opens a new window, *)
(* and ok counts the calls that succeeded in the window.                   *)
(***************************************************************************)
WindowAt(win, t) ==
    IF t - win.start > WindowMs THEN [start |-> t, ok |-> 0] ELSE win

WindowAfter(win, t, ok) ==
    LET w == WindowAt(win, t) IN
    IF ok THEN [w EXCEPT !.ok = @ + 1] ELSE w

(***************************************************************************)
(* The client's state threaded through one synchronous block:              *)
(* rc = requestCount, win = window, sent = httpSent, ev = the block's      *)
(* events in program order, ok = whether the last checkRateLimit returned. *)
(***************************************************************************)
ClientState(ev) ==
    [rc |-> requestCount, win |-> window, sent |-> httpSent, ev |-> ev, ok |-> TRUE]

\* this.checkRateLimit() at time t
Check(cs, t) ==
    LET r == checkRateLimit(cs.rc, t) IN
    [cs EXCEPT !.rc = r.rc,
               !.win = WindowAfter(cs.win, t, r.ok),
               !.ev = Append(@, IF r.ok THEN "check_ok" ELSE "check_fail"),
               !.ok = r.ok]

\* fetch(url, ...) of the BraveClient: the request is issued
Fetch(cs, endpoint) ==
    [cs EXCEPT !.sent = @ + 1, !.ev = Append(@, endpoint)]

\* a request of another client is issued
Request(cs, endpoint) ==
    [cs EXCEPT !.ev = Append(@, endpoint)]

\* CheckThenFetch issuing the request whatever the rate check said
CheckThenFetchUnguarded(cs, t, endpoint) ==
    LET c == Check(cs, t) IN
    [Fetch(c, endpoint) EXCEPT !.ok = c.ok]

\* the entry of performWebSearch, getPoisData, getDescriptionsData and
\* performLocalSearch: checkRateLimit, then the request (client.ts 64-70,
\* 103-112, 147-151, 173-177)
CheckThenFetch(cs, t, endpoint) ==
    LET c == Check(cs, t) IN
    IF c.ok THEN Fetch(c, endpoint) ELSE c

(***************************************************************************)
(* Upstream answers.  A fetch ends in a response with ok status, in a      *)
(* response with a non-2xx status, or in a rejection.                      *)
(***************************************************************************)
\* a field that is absent from an upstream JSON object
Undefined == "<undefined>"
\* an id that is null in the upstream JSON
NullId == "<null>"

\* v || fallback, for a string or absent v
OrElse(v, fallback) == IF v = Undefined \/ v = "" THEN fallback ELSE v
\* v ?? fallback
Coalesce(v, fallback) == IF v = Undefined THEN fallback ELSE v

RECURSIVE JoinTrailing(_, _)
\* Join putting the separator after every element
JoinTrailing(strs, sep) ==
    IF Len(strs) = 0 THEN ""
    ELSE strs[1] \o sep \o JoinTrailing(Tail(strs), sep)

RECURSIVE Join(_, _)
\* Array.prototype.join on an array of strings
Join(strs, sep) ==
    IF Len(strs) = 0 THEN ""
    ELSE IF Len(strs) = 1 THEN strs[1]
    ELSE strs[1] \o sep \o Join(Tail(strs), sep)

\* the text of the Error thrown for a non-2xx response (client.ts 79, 121, 160, 186)
HttpErrorMessage(status, statusText, body) ==
    "Brave API error: " \o status \o " " \o statusText \o "\n" \o body

\* the three ways a fetch can end; err is what a rejection throws
Upstream(kind, err) ==
    [kind |-> kind, err |-> err,
     status |-> IF kind = "bad" THEN "500" ELSE "200",
     statusText |-> IF kind = "bad" THEN "Internal Server Error" ELSE "OK",
     body |-> IF kind = "bad" THEN "upstream failure" ELSE ""]

\* what a rejected fetch, or a body that is not JSON, throws
Rejections == {JsError("fetch failed"), JsNonError("aborted")}

Failures == {Upstream("bad", NoError)} \cup {Upstream("reject", e) : e \in Rejections}

R1 == [title |-> "T", description |-> "D", url |-> "U"]
R2 == [title |-> "T2", description |-> Undefined, url |-> "U2"]

\* answers of the web search endpoint: data.web.results, or no data.web
WebResponses ==
    {f @@ [hasWeb |-> FALSE, results |-> <<>>] : f \in Failures}
    \cup {Upstream("ok", NoError) @@ [hasWeb |-> FALSE, results |-> <<>>]}
    \cup {Upstream("ok", NoError) @@ [hasWeb |-> TRUE, results |-> r] :
             r \in {<<>>, <<R1>>, <<R1, R2>>}}

\* answers of the location-filtered search: data.locations.results
LocResponses ==
    {f @@ [hasLocations |-> FALSE, locs |-> <<>>] : f \in Failures}
    \cup {Upstream("ok", NoError) @@ [hasLocations |-> FALSE, locs |-> <<>>]}
    \cup {Upstream("ok", NoError) @@ [hasLocations |-> TRUE, locs |-> l] :
             l \in {<<>>, <<NullId>>, <<"id1">>, <<"id1", NullId, "id2">>}}

Poi1 ==
    [id |-> "id1", name |-> "Cafe", streetAddress |-> "1 Main St", addressLocality |-> "Town",
     addressRegion |-> Undefined, postalCode |-> "", phone |-> Undefined,
     ratingValue |-> "4.5", ratingCount |-> "12", priceRange |-> "$$",
     openingHours |-> <<"Mo 9-17", "Tu 9-17">>]
Poi2 ==
    [id |-> "id2", name |-> "Bar", streetAddress |-> Undefined, addressLocality |-> Undefined,
     addressRegion |-> Undefined, postalCode |-> Undefined, phone |-> "555",
     ratingValue |-> Undefined, ratingCount |-> Undefined, priceRange |-> Undefined,
     openingHours |-> <<>>]

\* answers of the pois and of the descriptions endpoint
DetailResponses ==
    {f @@ [pois |-> <<>>, descriptions |-> <<>>] : f \in Failures}
    \cup {Upstream("ok", NoError) @@ [pois |-> p, descriptions |-> d] :
             p \in {<<>>, <<Poi1, Poi2>>},
             d \in {<<>>, <<[id |-> "id1", text |-> "nice"]>>}}

\* what the client throws for an answer that is not a 2xx response
\* (client.ts 78-80, 120-122, 159-161, 185-187)
responseError(resp) ==
    IF resp.kind = "bad"
    THEN JsError(HttpErrorMessage(resp.status, resp.statusText, resp.body))
    ELSE resp.err

(***************************************************************************)
(* BraveClient: formatting                                                 *)
(***************************************************************************)
RECURSIVE formatWebBlocks(_)
\* results.map(r => `Title: ...`) with the || '' defaults (client.ts 85-93)
formatWebBlocks(results) ==
    IF Len(results) = 0 THEN <<>>
    ELSE <<"Title: " \o OrElse(results[1].title, "")
           \o "\nDescription: " \o OrElse(results[1].description, "")
           \o "\nURL: " \o OrElse(results[1].url, "")>>
         \o formatWebBlocks(Tail(results))

\* the text performWebSearch returns for a 2xx answer (client.ts 82-93)
formatWebResults(resp) ==
    Join(formatWebBlocks(IF resp.hasWeb THEN resp.results ELSE <<>>), "\n\n")

\* the ids performLocalSearch extracts (client.ts 125)
locationIds(resp) ==
    IF resp.hasLocations THEN SelectSeq(resp.locs, LAMBDA id : id # NullId) ELSE <<>>

\* descData.descriptions[id]
descriptionOf(descriptions, id) ==
    IF \E i \in 1..Len(descriptions) : descriptions[i].id = id
    THEN descriptions[CHOOSE i \in 1..Len(descriptions) : descriptions[i].id = id].text
    ELSE Undefined

\* one POI block of formatLocalResults (client.ts 201-215)
formatPoi(poi, descriptions) ==
    LET parts == SelectSeq(<<Coalesce(poi.streetAddress, ""), Coalesce(poi.addressLocality, ""),
                             Coalesce(poi.addressRegion, ""), Coalesce(poi.postalCode, "")>>,
                           LAMBDA part : part # "")
        address == OrElse(Join(parts, ", "), "N/A")
    IN "Name: " \o poi.name
       \o "\nAddress: " \o address
       \o "\nPhone: " \o OrElse(poi.phone, "N/A")
       \o "\nRating: " \o Coalesce(poi.ratingValue, "N/A")
       \o " (" \o Coalesce(poi.ratingCount, "0") \o " reviews)"
       \o "\nPrice Range: " \o OrElse(poi.priceRange, "N/A")
       \o "\nHours: " \o OrElse(Join(poi.openingHours, ", "), "N/A")
       \o "\nDescription: " \o OrElse(descriptionOf(descriptions, poi.id), "No description available")
       \o "\n"

RECURSIVE formatPois(_, _)
formatPois(pois, descriptions) ==
    IF Len(pois) = 0 THEN <<>>
    ELSE <<formatPoi(pois[1], descriptions)>> \o formatPois(Tail(pois), descriptions)

\* formatLocalResults (client.ts 199-217)
formatLocalResults(pois, descriptions) ==
    OrElse(Join(formatPois(pois, descriptions), "\n---\n"), "No local results found")

(***************************************************************************)
(* Strings whose characters the code inspects are sequences of one-        *)
(* character strings.                                                      *)
(***************************************************************************)
UpperCase == <<"A", "B", "C", "D", "E", "F", "G", "H", "I", "J", "K", "L", "M", "N", "O", "P", "Q", "R", "S", "T", "U", "V", "W", "X", "Y", "Z">>
LowerCase == <<"a", "b", "c", "d", "e", "f", "g", "h", "i", "j", "k", "l", "m", "n", "o", "p", "q", "r", "s", "t", "u", "v", "w", "x", "y", "z">>
Digits == {"0", "1", "2", "3", "4", "5", "6", "7", "8", "9"}
WhiteSpace == {" ", "\t", "\n"}

Range(seq) == {seq[i] : i \in 1..Len(seq)}

\* String.prototype.toLowerCase, one character
lowerChar(c) ==
    IF c \in Range(UpperCase)
    THEN LowerCase[CHOOSE i \in 1..Len(UpperCase) : UpperCase[i] = c]
    ELSE c

toLowerCase(str) == [i \in 1..Len(str) |-> lowerChar(str[i])]

RECURSIVE trimStart(_)
trimStart(str) ==
    IF Len(str) > 0 /\ Head(str) \in WhiteSpace THEN trimStart(Tail(str)) ELSE str

RECURSIVE trimEnd(_)
trimEnd(str) ==
    IF Len(str) > 0 /\ str[Len(str)] \in WhiteSpace
    THEN trimEnd(SubSeq(str, 1, Len(str) - 1))
    ELSE str

\* trim leaving the white space at the end
trimLeadingOnly(str) == trimStart(str)

\* String.prototype.trim
trim(str) == trimEnd(trimStart(str))

(***************************************************************************)
(* The topic resolver (src/src/tools/techUpdate.ts 21-100)                 *)
(***************************************************************************)
TOPIC_DEFINITIONS == <<
    [slug |-> <<"n", "e", "w", "M", "o", "d", "e", "l", "s">>,
     title |-> "New AI Model Releases",
     keywords |-> <<
        <<"n", "e", "w", "m", "o", "d", "e", "l", "s">>,
        <<"m", "o", "d", "e", "l", "r", "e", "l", "e", "a", "s", "e">>,
        <<"m", "o", "d", "e", "l", "r", "e", "l", "e", "a", "s", "e", "s">>,
        <<"l", "a", "t", "e", "s", "t", "m", "o", "d", "e", "l", "s">>>>],
    [slug |-> <<"a", "i", "P", "r", "o", "d", "u", "c", "t", "U", "p", "d", "a", "t", "e", "s">>,
     title |-> "AI Product & Platform Updates",
     keywords |-> <<
        <<"a", "i", "p", "r", "o", "d", "u", "c", "t", "u", "p", "d", "a", "t", "e", "s">>,
        <<"p", "r", "o", "d", "u", "c", "t", "u", "p", "d", "a", "t", "e", "s">>,
        <<"p", "l", "a", "t", "f", "o", "r", "m", "u", "p", "d", "a", "t", "e", "s">>,
        <<"a", "i", "p", "r", "o", "d", "u", "c", "t">>>>],
    [slug |-> <<"t", "e", "c", "h", "R", "e", "s", "e", "a", "r", "c", "h">>,
     title |-> "AI & Tech Research Highlights",
     keywords |-> <<
        <<"t", "e", "c", "h", "r", "e", "s", "e", "a", "r", "c", "h">>,
        <<"a", "i", "r", "e", "s", "e", "a", "r", "c", "h">>,
        <<"r", "e", "s", "e", "a", "r", "c", "h", "u", "p", "d", "a", "t", "e", "s">>,
        <<"m", "l", "r", "e", "s", "e", "a", "r", "c", "h">>>>],
    [slug |-> <<"p", "o", "l", "E", "t", "h", "i", "c", "s", "A", "n", "d", "S", "a", "f", "e", "t", "y">>,
     title |-> "Policy, Ethics & Safety",
     keywords |-> <<
        <<"p", "o", "l", "e", "t", "h", "i", "c", "s", "a", "n", "d", "s", "a", "f", "e", "t", "y">>,
        <<"p", "o", "l", "e", "t", "h", "i", "c", "s", "a", "f", "e", "t", "y">>,
        <<"p", "o", "l", "i", "c", "y", "e", "t", "h", "i", "c", "s">>,
        <<"p", "o", "l", "s", "a", "f", "e", "t", "y">>,
        <<"p", "o", "l", "i", "c", "y", "e", "t", "h", "i", "c", "s", "a", "n", "d", "s", "a", "f", "e", "t", "y">>>>],
    [slug |-> <<"u", "p", "c", "o", "m", "i", "n", "g", "E", "v", "e", "n", "t", "s">>,
     title |-> "Upcoming AI & Tech Events",
     keywords |-> <<
        <<"u", "p", "c", "o", "m", "i", "n", "g", "e", "v", "e", "n", "t", "s">>,
        <<"a", "i", "e", "v", "e", "n", "t", "s">>,
        <<"t", "e", "c", "h", "e", "v", "e", "n", "t", "s">>,
        <<"e", "v", "e", "n", "t", "s">>>>]
>>

\* Map.prototype.set on a map kept as its entries in insertion order
mapSet(map, key, value) ==
    IF \E i \in 1..Len(map) : map[i].key = key
    THEN [i \in 1..Len(map) |->
            IF map[i].key = key THEN [key |-> key, value |-> value] ELSE map[i]]
    ELSE Append(map, [key |-> key, value |-> value])

mapHas(map, key) == \E i \in 1..Len(map) : map[i].key = key

\* Map.prototype.get, for a key the map has
mapGet(map, key) == map[CHOOSE i \in 1..Len(map) : map[i].key = key].value

RECURSIVE setKeywordsDropLast(_, _, _)
\* setKeywords stopping before the last keyword
setKeywordsDropLast(map, keywords, topic) ==
    IF Len(keywords) <= 1 THEN map
    ELSE setKeywordsDropLast(mapSet(map, Head(keywords), topic), Tail(keywords), topic)

RECURSIVE setKeywords(_, _, _)
\* the inner loop of the index construction (techUpdate.ts 86-88)
setKeywords(map, keywords, topic) ==
    IF Len(keywords) = 0 THEN map
    ELSE setKeywords(mapSet(map, Head(keywords), topic), Tail(keywords), topic)

RECURSIVE buildTopicIndex(_, _)
\* the loop that fills topicIndex (techUpdate.ts 85-90); a topic is kept as
\* its position in TOPIC_DEFINITIONS
buildTopicIndex(map, i) ==
    IF i > Len(TOPIC_DEFINITIONS) THEN map
    ELSE buildTopicIndex(
             mapSet(setKeywords(map, TOPIC_DEFINITIONS[i].keywords, i),
                    toLowerCase(TOPIC_DEFINITIONS[i].slug), i),
             i + 1)

topicIndex == buildTopicIndex(<<>>, 1)

\* normalizeTopicKey keeping the characters outside [a-z0-9]
normalizeTopicKeyNoStrip(topic) == toLowerCase(trim(topic))

\* techUpdate.ts 94-96
normalizeTopicKey(topic) ==
    SelectSeq(toLowerCase(trim(topic)),
              LAMBDA c : c \in Range(LowerCase) \/ c \in Digits)

\* techUpdate.ts 98-100: the position of the definition, 0 for undefined
resolveTopic(topic) ==
    IF mapHas(topicIndex, normalizeTopicKey(topic))
    THEN mapGet(topicIndex, normalizeTopicKey(topic))
    ELSE 0

\* values of args.topic
TopicInputs == {
    <<"n", "e", "w", "M", "o", "d", "e", "l", "s">>,
    <<"N", "e", "w", " ", "M", "o", "d", "e", "l", "s">>,
    <<"N", "E", "W", "M", "O", "D", "E", "L", "S">>,
    <<" ", "u", "p", "c", "o", "m", "i", "n", "g", "-", "e", "v", "e", "n", "t", "s", " ">>,
    <<"a", "i", " ", "r", "e", "s", "e", "a", "r", "c", "h">>,
    <<"e", "v", "e", "n", "t", "s">>,
    <<"b", "o", "g", "u", "s">>,
    <<"n", "e", "w", " ", "m", "o", "d", "e", "l", "s", " ", "2">>,
    <<>>
}

(***************************************************************************)
(* JSON values: t is the type; s the characters of a string, the digits of *)
(* a number or the name of a boolean; keys and items the fields of an      *)
(* object in enumeration order; items the elements of an array.            *)
(***************************************************************************)
JV(t, str, keys, items) == [t |-> t, s |-> str, keys |-> keys, items |-> items]
JUndefined == JV("undefined", <<>>, <<>>, <<>>)
JNull == JV("null", <<>>, <<>>, <<>>)
JStr(str) == JV("str", str, <<>>, <<>>)
JNum(digits) == JV("num", digits, <<>>, <<>>)
JArr(items) == JV("arr", <<>>, <<>>, items)
JObj(keys, items) == JV("obj", <<>>, keys, items)
JBool(name) == JV("bool", <<name>>, <<>>, <<>>)

\* !value
jsFalsy(v) ==
    \/ v.t \in {"undefined", "null"}
    \/ v.t = "str" /\ v.s = <<>>
    \/ v.t = "num" /\ v.s = <<"0">>
    \/ v.t = "bool" /\ v.s = <<"false">>

\* record[key]
jsField(v, key) ==
    IF \E i \in 1..Len(v.keys) : v.keys[i] = key
    THEN v.items[CHOOSE i \in 1..Len(v.keys) : v.keys[i] = key]
    ELSE JUndefined

RECURSIVE findFirstText(_)
RECURSIVE findFirstTextIn(_)
\* findFirstText searching the field values in field order only
findFirstTextFieldOrder(value) ==
    IF jsFalsy(value) THEN JUndefined
    ELSE IF value.t = "str"
    THEN (IF Len(trim(value.s)) > 0 THEN JStr(trim(value.s)) ELSE JUndefined)
    ELSE IF value.t \in {"arr", "obj"} THEN findFirstTextIn(value.items)
    ELSE JUndefined

\* the loops of findFirstText over an array or over Object.values
\* (techUpdate.ts 124-130, 144-149)
findFirstTextIn(items) ==
    IF Len(items) = 0 THEN JUndefined
    ELSE LET text == findFirstText(Head(items)) IN
         IF ~jsFalsy(text) THEN text ELSE findFirstTextIn(Tail(items))

\* findFirstText (techUpdate.ts 113-153): a string, or undefined
findFirstText(value) ==
    IF jsFalsy(value) THEN JUndefined
    ELSE IF value.t = "str"
    THEN (IF Len(trim(value.s)) > 0 THEN JStr(trim(value.s)) ELSE JUndefined)
    ELSE IF value.t = "arr" THEN findFirstTextIn(value.items)
    ELSE IF value.t = "obj"
    THEN LET text == jsField(value, "text")
             content == jsField(value, "content")
             inContent == IF content.t = "arr" THEN findFirstText(content) ELSE JUndefined
         IN IF text.t = "str" /\ ~jsFalsy(JStr(trim(text.s))) THEN JStr(trim(text.s))
            ELSE IF ~jsFalsy(inContent) THEN inContent
            ELSE findFirstTextIn(value.items)
    ELSE JUndefined

(***************************************************************************)
(* extractCitations (src/src/tools/techUpdate.ts 155-227).  A citation is  *)
(* [label, url], both as characters; st holds the closure's citations and  *)
(* seen.                                                                   *)
(***************************************************************************)
NoCitations == [citations |-> <<>>, seen |-> {}]

\* pushCitation replacing the citation kept for a url by the later one
pushCitationLastWins(st, label, url) ==
    IF url = <<>> THEN st
    ELSE LET c == [label |-> IF label = <<>> THEN url ELSE label, url |-> url] IN
         IF url \in st.seen
         THEN [st EXCEPT !.citations =
                  [i \in 1..Len(st.citations) |->
                      IF st.citations[i].url = url THEN c ELSE st.citations[i]]]
         ELSE [citations |-> Append(st.citations, c), seen |-> st.seen \cup {url}]

\* pushCitation (techUpdate.ts 159-165)
pushCitation(st, label, url) ==
    IF url = <<>> \/ url \in st.seen THEN st
    ELSE [citations |-> Append(st.citations,
                               [label |-> IF label = <<>> THEN url ELSE label, url |-> url]),
          seen |-> st.seen \cup {url}]

\* the label explore takes for a record with a string url (techUpdate.ts 183-189)
recordLabel(record) ==
    IF jsField(record, "label").t = "str" THEN jsField(record, "label").s
    ELSE IF jsField(record, "title").t = "str" THEN jsField(record, "title").s
    ELSE IF jsField(record, "name").t = "str" THEN jsField(record, "name").s
    ELSE jsField(record, "url").s

\* the label explore takes for an item of a citations array (techUpdate.ts 198-202)
citationRecordLabel(citationRecord) ==
    IF jsField(citationRecord, "label").t = "str" THEN jsField(citationRecord, "label").s
    ELSE IF jsField(citationRecord, "title").t = "str" THEN jsField(citationRecord, "title").s
    ELSE jsField(citationRecord, "url").s

RECURSIVE exploreCitations(_, _)
\* the loop over record.citations (techUpdate.ts 194-206)
exploreCitations(st, items) ==
    IF Len(items) = 0 THEN st
    ELSE LET item == Head(items)
             st1 == IF item.t = "obj" /\ jsField(item, "url").t = "str"
                    THEN pushCitation(st, citationRecordLabel(item), jsField(item, "url").s)
                    ELSE st
         IN exploreCitations(st1, Tail(items))

RECURSIVE explore(_, _)
RECURSIVE exploreItems(_, _)
\* the loops of explore over an array and over Object.values(record)
\* (techUpdate.ts 173-175, 209-211)
exploreItems(st, items) ==
    IF Len(items) = 0 THEN st
    ELSE exploreItems(explore(st, Head(items)), Tail(items))

\* explore (techUpdate.ts 167-213)
explore(st, node) ==
    IF jsFalsy(node) THEN st
    ELSE IF node.t = "arr" THEN exploreItems(st, node.items)
    ELSE IF node.t = "obj"
    THEN LET st1 == IF jsField(node, "url").t = "str"
                    THEN pushCitation(st, recordLabel(node), jsField(node, "url").s)
                    ELSE st
             st2 == IF jsField(node, "citations").t = "arr"
                    THEN exploreCitations(st1, jsField(node, "citations").items)
                    ELSE st1
         IN exploreItems(st2, node.items)
    ELSE st

\* text has the characters pat at position i, whatever their case
startsWithAt(text, i, pat) ==
    /\ i + Len(pat) - 1 <= Len(text)
    /\ \A k \in 1..Len(pat) : lowerChar(text[i + k - 1]) = pat[k]

\* the length of https?:\/\/ matched at position i, 0 for no match
schemeLength(text, i) ==
    IF startsWithAt(text, i, <<"h", "t", "t", "p", "s", ":", "/", "/">>) THEN 8
    ELSE IF startsWithAt(text, i, <<"h", "t", "t", "p", ":", "/", "/">>) THEN 7
    ELSE 0

\* [^\s)]
urlChar(c) == c \notin WhiteSpace /\ c # ")"

\* the lookahead (?![^\[]*\]) fails at position k: a "]" follows with no "["
\* before it
beforeClosingBracket(text, k) ==
    \E j \in k..Len(text) :
        text[j] = "]" /\ \A m \in k..(j - 1) : text[m] # "["

\* the last position of the match of urlRegex that starts at position i,
\* 0 for no match: the longest run of [^\s)]+ after the scheme that the
\* lookahead accepts
matchEnd(text, i) ==
    LET first == i + schemeLength(text, i)
        ends == {e \in first..Len(text) :
                    /\ \A m \in first..e : urlChar(text[m])
                    /\ ~beforeClosingBracket(text, e + 1)}
    IN IF schemeLength(text, i) = 0 \/ ends = {} THEN 0
       ELSE CHOOSE e \in ends : \A other \in ends : other <= e

RECURSIVE scanUrls(_, _, _)
\* the while loop over urlRegex.exec(fallbackText) from lastIndex i - 1 on
\* (techUpdate.ts 218-223)
scanUrls(st, text, i) ==
    IF i > Len(text) THEN st
    ELSE IF matchEnd(text, i) = 0 THEN scanUrls(st, text, i + 1)
    ELSE LET url == SubSeq(text, i, matchEnd(text, i)) IN
         scanUrls(pushCitation(st, url, url), text, matchEnd(text, i) + 1)

\* extractCitations (techUpdate.ts 155-227)
extractCitations(input, fallbackText) ==
    LET st == explore(NoCitations, input) IN
    IF Len(st.citations) = 0 /\ fallbackText # <<>>
    THEN scanUrls(st, fallbackText, 1).citations
    ELSE st.citations

(***************************************************************************)
(* Invocations.  A slot of `task` holds one tool invocation from the call  *)
(* until nothing of it is pending any more; `last` holds the invocation    *)
(* that completed most recently (what the request handler returned or      *)
(* threw).                                                                 *)
(*   pc: idle | awaitWeb | awaitLoc | awaitDetails | orphanDetails |       *)
(*       awaitForecast | awaitOpenAI                                       *)
(*   poi, desc: none | rejected (the rate check threw) | pending | ok |    *)
(*       failed                                                            *)
(***************************************************************************)
IdleTask ==
    [pc |-> "idle", server |-> "none", name |-> "", handler |-> "none", valid |-> FALSE,
     fallback |-> FALSE, poi |-> "none", desc |-> "none",
     pois |-> <<>>, descriptions |-> <<>>, topic |-> 0, events |-> <<>>]

\* returned, text: the client operation returned this text
\* input, result: the argument and the value of a function called on its own
\* caught: the failure raised while handling (what the catch clause received,
\* where there is one)
Completed(t, tk, returned, text, caught, outcome) ==
    [server |-> tk.server, name |-> tk.name, handler |-> tk.handler,
     valid |-> tk.valid, fallback |-> tk.fallback, poi |-> tk.poi, desc |-> tk.desc,
     topic |-> tk.topic, events |-> tk.events, returned |-> returned, text |-> text, caught |-> caught,
     outcome |-> outcome, input |-> <<>>, result |-> <<>>]

NoLast == Completed(0, IdleTask, FALSE, "", NoError, NoOutcome)

\* a synchronous block ends at an await: tk stays in the slot
Suspend(cs, tk) ==
    [cs |-> cs, tk |-> [tk EXCEPT !.events = cs.ev], done |-> FALSE, fin |-> NoLast]

\* a synchronous block ends the invocation: rest stays in the slot
Complete(cs, t, tk, rest, returned, text, caught, outcome) ==
    [cs |-> cs, tk |-> rest, done |-> TRUE,
     fin |-> Completed(t, [tk EXCEPT !.events = cs.ev], returned, text, caught, outcome)]

(***************************************************************************)
(* Argument bags: what request.params.arguments may hold                   *)
(***************************************************************************)
FieldKinds == {"absent", "number", "string"}

Bag(kind, query, latitude, longitude) ==
    [kind |-> kind, query |-> query, latitude |-> latitude, longitude |-> longitude]

\* bags that are not a plain object
NonObjectBags ==
    {Bag(k, "absent", "absent", "absent") :
        k \in {"undefined", "null", "zero", "number", "string", "array"}}

\* the bags sent to the search server
SearchArgBags ==
    NonObjectBags \cup {Bag("object", q, "absent", "absent") : q \in FieldKinds}

\* the bags sent to the weather server
ForecastArgBags ==
    NonObjectBags
    \cup {Bag("object", "absent", la, lo) : la \in FieldKinds, lo \in FieldKinds}

\* !args
Falsy(args) == args.kind \in {"undefined", "null", "zero"}

\* typeof args === "object"
TypeofObject(args) == args.kind \in {"null", "array", "object"}

\* isWebSearchArgs accepting a query of any type
isWebSearchArgsAnyQuery(args) ==
    IF ~TypeofObject(args) THEN FALSE
    ELSE IF args.kind = "null" THEN FALSE
    ELSE args.query # "absent"

\* isWebSearchArgs (search.ts 73-80)
isWebSearchArgs(args) ==
    /\ TypeofObject(args)
    /\ args.kind # "null"
    /\ args.query # "absent"
    /\ args.query = "string"

\* isLocalSearchArgs (search.ts 87-94)
isLocalSearchArgs(args) ==
    /\ TypeofObject(args)
    /\ args.kind # "null"
    /\ args.query # "absent"
    /\ args.query = "string"

(***************************************************************************)
(* The search tool handlers (src/src/tools/search.ts)                      *)
(***************************************************************************)
\* searchHandlerCatch letting a thrown value that is no Error go on
searchHandlerCatchRethrow(err) ==
    IF err.inst THEN ToolResult("true", "Error: " \o err.message) ELSE Escaped(err)

\* searchHandlerCatch reporting the failure as a success
searchHandlerCatchSilent(err) ==
    ToolResult("false", "Error: " \o (IF err.inst THEN err.message ELSE err.str))

\* the return of handleWebSearchTool and handleLocalSearchTool
searchHandlerReturn(text) == ToolResult("false", text)

\* the catch clause of handleWebSearchTool and handleLocalSearchTool
searchHandlerCatch(err) ==
    ToolResult("true", "Error: " \o (IF err.inst THEN err.message ELSE err.str))

\* the client operation returned text to the handler
searchReturn(cs, t, tk, rest, text) ==
    Complete(cs, t, tk, rest, TRUE, text, NoError, searchHandlerReturn(text))

\* err was thrown inside the handler's try block
searchCatch(cs, t, tk, rest, err) ==
    Complete(cs, t, tk, rest, FALSE, "", err, searchHandlerCatch(err))

(***************************************************************************)
(* BraveClient operations, one operator per synchronous block              *)
(***************************************************************************)
\* performWebSearch up to its first await (client.ts 63-76)
performWebSearch(cs, t, tk, tnow) ==
    LET c == CheckThenFetch(cs, tnow, "http_web") IN
    IF c.ok
    THEN Suspend(c, [tk EXCEPT !.pc = "awaitWeb"])
    ELSE searchCatch(c, t, tk, IdleTask, RateLimitError)

\* performWebSearch from the response on (client.ts 78-93)
performWebSearchResume(cs, t, tk, resp) ==
    IF resp.kind = "ok"
    THEN searchReturn(cs, t, tk, IdleTask, formatWebResults(resp))
    ELSE searchCatch(cs, t, tk, IdleTask, responseError(resp))

\* performLocalSearch up to its first await (client.ts 102-118)
performLocalSearch(cs, t, tk, tnow) ==
    LET c == CheckThenFetch(cs, tnow, "http_loc") IN
    IF c.ok
    THEN Suspend(c, [tk EXCEPT !.pc = "awaitLoc"])
    ELSE searchCatch(c, t, tk, IdleTask, RateLimitError)

\* Promise.all([getPoisData(ids), getDescriptionsData(ids)]) up to the await
\* (client.ts 132-135, 146-157, 172-183): both functions run to their own
\* first await, in this order, before Promise.all is called; a rate check
\* that throws leaves its promise rejected, and Promise.all rejects with the
\* first rejected promise
detailFanOut(cs, t, tk, tnow) ==
    LET c1 == CheckThenFetch(cs, tnow, "http_poi")
        c2 == CheckThenFetch(c1, tnow, "http_desc")
        tk2 == [tk EXCEPT !.poi = IF c1.ok THEN "pending" ELSE "rejected",
                          !.desc = IF c2.ok THEN "pending" ELSE "rejected"]
    IN IF c1.ok /\ c2.ok
       THEN Suspend(c2, [tk2 EXCEPT !.pc = "awaitDetails"])
       ELSE searchCatch(c2, t, tk2,
                        IF c1.ok \/ c2.ok
                        THEN [tk2 EXCEPT !.pc = "orphanDetails", !.events = c2.ev]
                        ELSE IdleTask,
                        RateLimitError)

\* performLocalSearch from the response of the initial search on
\* (client.ts 120-135)
performLocalSearchResume(cs, t, tk, tnow, resp) ==
    IF resp.kind # "ok"
    THEN searchCatch(cs, t, tk, IdleTask, responseError(resp))
    ELSE IF Len(locationIds(resp)) = 0
         THEN performWebSearch(cs, t, [tk EXCEPT !.fallback = TRUE], tnow)
         ELSE detailFanOut(cs, t, tk, tnow)

\* the state of a detail fetch after its response (client.ts 159-163, 185-189)
detailSettled(resp) == IF resp.kind = "ok" THEN "ok" ELSE "failed"

\* the response of getPoisData (which = "poi") or of getDescriptionsData
\* (which = "desc") arrives; Promise.all and performLocalSearch go on
\* (client.ts 132-137)
detailResume(cs, t, tk, which, resp) ==
    LET st == detailSettled(resp)
        tk2 == IF which = "poi"
               THEN [tk EXCEPT !.poi = st, !.pois = resp.pois]
               ELSE [tk EXCEPT !.desc = st, !.descriptions = resp.descriptions]
        other == IF which = "poi" THEN tk.desc ELSE tk.poi
        rest == IF other = "pending" THEN [tk2 EXCEPT !.pc = "orphanDetails"] ELSE IdleTask
    IN IF tk.pc = "orphanDetails"
       THEN [cs |-> cs, tk |-> rest, done |-> FALSE, fin |-> NoLast]
       ELSE IF st = "failed"
            THEN searchCatch(cs, t, tk2, rest, responseError(resp))
            ELSE IF other = "ok"
                 THEN searchReturn(cs, t, tk2, IdleTask,
                                   formatLocalResults(tk2.pois, tk2.descriptions))
                 ELSE Suspend(cs, tk2)

(***************************************************************************)
(* handleWebSearchTool, handleLocalSearchTool up to the first await        *)
(***************************************************************************)
\* search.ts 102-113
handleWebSearchTool(cs, t, tk0, tnow, args) ==
    LET tk == [tk0 EXCEPT !.handler = "web"] IN
    IF Falsy(args)
    THEN searchCatch(cs, t, tk, IdleTask, JsError("No arguments provided"))
    ELSE IF ~isWebSearchArgs(args)
         THEN searchCatch(cs, t, tk, IdleTask,
                          JsError("Invalid arguments for brave_web_search"))
         ELSE performWebSearch(cs, t, [tk EXCEPT !.valid = TRUE], tnow)

\* search.ts 138-149
handleLocalSearchTool(cs, t, tk0, tnow, args) ==
    LET tk == [tk0 EXCEPT !.handler = "local"] IN
    IF Falsy(args)
    THEN searchCatch(cs, t, tk, IdleTask, JsError("No arguments provided"))
    ELSE IF ~isLocalSearchArgs(args)
         THEN searchCatch(cs, t, tk, IdleTask,
                          JsError("Invalid arguments for brave_local_search"))
         ELSE performLocalSearch(cs, t, [tk EXCEPT !.valid = TRUE], tnow)

(***************************************************************************)
(* The dispatchers                                                         *)
(***************************************************************************)
ToolNames ==
    {"brave_web_search", "brave_local_search", "get_forecast", "get_tech_update",
     "Brave_Web_Search"}

\* methodNotFound answering in band
methodNotFoundInBand(cs, t, tk, name) ==
    Complete(cs, t, tk, IdleTask, FALSE, "", NoError,
             ToolResult("true", "Error: Unknown tool: " \o name))

\* the default branch of the switch (server.ts 67-71, part_003 69-74)
methodNotFound(cs, t, tk, name) ==
    Complete(cs, t, tk, IdleTask, FALSE, "", NoError,
             Escaped(McpError("MethodNotFound", "Unknown tool: " \o name)))

\* the CallToolRequest handler of BraveServer (server.ts 57-73)
braveCallTool(cs, t, tnow, name, args) ==
    LET tk == [IdleTask EXCEPT !.server = "brave", !.name = name] IN
    CASE name = "brave_web_search" -> handleWebSearchTool(cs, t, tk, tnow, args)
      [] name = "brave_local_search" -> handleLocalSearchTool(cs, t, tk, tnow, args)
      [] OTHER -> methodNotFound(cs, t, tk, name)

\* forecastArgsInvalid without the test of longitude
forecastArgsInvalidLatitudeOnly(args) ==
    IF Falsy(args) THEN TRUE
    ELSE IF ~TypeofObject(args) THEN TRUE
    ELSE args.latitude # "number"

\* the validation of the get_forecast case (part_003 53-58)
forecastArgsInvalid(args) ==
    \/ Falsy(args)
    \/ ~TypeofObject(args)
    \/ args.latitude # "number"
    \/ args.longitude # "number"

\* getForecastTool.handler up to its request
forecastHandler(cs, t, tk) ==
    Suspend(Request(cs, "http_forecast"),
            [tk EXCEPT !.handler = "forecast", !.valid = TRUE, !.pc = "awaitForecast"])

ForecastResponses ==
    {Upstream("ok", NoError), Upstream("bad", NoError)}

\* getForecastTool.handler from the response on
forecastHandlerResume(cs, t, tk, resp) ==
    IF resp.kind = "ok"
    THEN Complete(cs, t, tk, IdleTask, TRUE, "forecast", NoError,
                  ToolResult("false", "forecast"))
    ELSE Complete(cs, t, tk, IdleTask, FALSE, "", JsError("Weather API error: " \o resp.status),
                  ToolResult("true", "Error: Weather API error: " \o resp.status))

\* the CallToolRequest handler of WeatherServer (part_003 46-76)
weatherCallTool(cs, t, name, args) ==
    LET tk == [IdleTask EXCEPT !.server = "weather", !.name = name] IN
    CASE name = "get_forecast" ->
           IF forecastArgsInvalid(args)
           THEN Complete(cs, t, tk, IdleTask, FALSE, "", NoError,
                         Escaped(McpError("InvalidParams",
                             "Invalid or missing arguments for get_forecast. Expected { latitude: number, longitude: number, days?: number }.")))
           ELSE forecastHandler(cs, t, tk)
      [] OTHER -> methodNotFound(cs, t, tk, name)

(***************************************************************************)
(* The tool lists, and the servers of createStandaloneServer               *)
(***************************************************************************)
\* search.ts 8-36 and 40-66: the name and the required arguments
webSearchToolDefinition == [name |-> "brave_web_search", required |-> <<"query">>]

localSearchToolDefinition == [name |-> "brave_local_search", required |-> <<"query">>]

\* getForecastTool.definition
getForecastToolDefinition ==
    [name |-> "get_forecast", required |-> <<"latitude", "longitude">>]

\* the ListToolsRequest handler of BraveServer (server.ts 52-54)
braveListTools == <<webSearchToolDefinition, localSearchToolDefinition>>

\* the ListToolsRequest handler of the standalone search server
\* (server.ts 120-122)
braveStandaloneListTools == <<webSearchToolDefinition, localSearchToolDefinition>>

\* the ListToolsRequest handler of WeatherServer (part_003 41-43)
weatherListTools == <<getForecastToolDefinition>>

\* the ListToolsRequest handler of the standalone weather server
\* (part_003 120-122)
weatherStandaloneListTools == <<getForecastToolDefinition>>

\* the standalone search server routing every name but brave_web_search to
\* the default branch
braveStandaloneCallToolWebOnly(cs, t, tnow, name, args) ==
    LET tk == [IdleTask EXCEPT !.server = "brave", !.name = name] IN
    CASE name = "brave_web_search" -> handleWebSearchTool(cs, t, tk, tnow, args)
      [] OTHER -> methodNotFound(cs, t, tk, name)

\* the CallToolRequest handler of the standalone search server
\* (server.ts 124-140), on the client the factory created (118)
braveStandaloneCallTool(cs, t, tnow, name, args) ==
    LET tk == [IdleTask EXCEPT !.server = "brave", !.name = name] IN
    CASE name = "brave_web_search" -> handleWebSearchTool(cs, t, tk, tnow, args)
      [] name = "brave_local_search" -> handleLocalSearchTool(cs, t, tk, tnow, args)
      [] OTHER -> methodNotFound(cs, t, tk, name)

\* the CallToolRequest handler of the standalone weather server
\* (part_003 125-152)
weatherStandaloneCallTool(cs, t, name, args) ==
    LET tk == [IdleTask EXCEPT !.server = "weather", !.name = name] IN
    CASE name = "get_forecast" ->
           IF forecastArgsInvalid(args)
           THEN Complete(cs, t, tk, IdleTask, FALSE, "", NoError,
                         Escaped(McpError("InvalidParams",
                             "Invalid or missing arguments for get_forecast. Expected { latitude: number, longitude: number, days?: number }.")))
           ELSE forecastHandler(cs, t, tk)
      [] OTHER -> methodNotFound(cs, t, tk, name)

(***************************************************************************)
(* getTechUpdateTool.handler (src/src/tools/techUpdate.ts 247-310)         *)
(***************************************************************************)
\* answers of openAiClient.createResponse: a thrown value, or a response
TechResponse(kind, err, output_text, output, data) ==
    [kind |-> kind, err |-> err, output_text |-> output_text, output |-> output, data |-> data]

TechResponses ==
    {TechResponse("reject", e, JUndefined, JUndefined, JUndefined) :
        e \in {JsError("OpenAI API error: 500 Internal Server Error"), JsNonError("aborted")}}
    \cup {
      TechResponse("ok", NoError, JStr(<<" ", " ", "h", "i", " ">>), JUndefined, JUndefined),
      TechResponse("ok", NoError, JUndefined,
          JArr(<<JObj(<<"type", "content">>,
                      <<JStr(<<"m", "e", "s", "s", "a", "g", "e">>),
                        JArr(<<JObj(<<"type", "text">>, <<JStr(<<"o", "u", "t", "p", "u", "t", "_", "t", "e", "x", "t">>), JStr(<<" ", "h", "e", "l", "l", "o", " ">>)>>)>>)>>)>>),
          JUndefined),
      TechResponse("ok", NoError, JStr(<<" ", " ", " ">>), JNull, JObj(<<>>, <<>>)),
      TechResponse("ok", NoError, JUndefined, JUndefined,
          JArr(<<JStr(<<>>), JObj(<<"a">>, <<JStr(<<"x">>)>>)>>))
    }

\* techUpdate.ts 265-268
responseText(resp) ==
    IF resp.output_text.t = "str" /\ ~jsFalsy(JStr(trim(resp.output_text.s)))
    THEN JStr(trim(resp.output_text.s))
    ELSE IF ~jsFalsy(findFirstText(resp.output)) THEN findFirstText(resp.output)
    ELSE findFirstText(resp.data)

\* techCatch rethrowing whatever it caught
techCatchRethrow(err) == err

\* the catch clause of the handler (techUpdate.ts 298-309): what it throws
techCatch(err) ==
    IF err.mcp THEN err
    ELSE McpError("InternalError",
                  IF err.inst THEN err.message
                  ELSE "Unexpected error calling OpenAI Responses API.")

\* the result object of the handler, before JSON.stringify (techUpdate.ts 280-288)
techResult(text, topic) ==
    [content |-> text.s, topic |-> TOPIC_DEFINITIONS[topic].slug,
     title |-> TOPIC_DEFINITIONS[topic].title]

\* UnsupportedTopic reported as an internal error without the slugs
UnsupportedTopicInternal ==
    McpError("InternalError", "Unsupported topic for get_tech_update.")

UnsupportedTopic ==
    McpError("InvalidParams",
        "Unsupported topic for get_tech_update. Choose one of: newModels, aiProductUpdates, techResearch, polEthicsAndSafety, upcomingEvents.")

\* the handler up to its await (techUpdate.ts 247-263)
getTechUpdateHandler(cs, t, topic) ==
    LET tk == [IdleTask EXCEPT !.server = "news", !.name = "get_tech_update",
                               !.handler = "tech", !.topic = resolveTopic(topic)]
    IN IF resolveTopic(topic) = 0
       THEN Complete(cs, t, tk, IdleTask, FALSE, "", UnsupportedTopic,
                     Escaped(UnsupportedTopic))
       ELSE Suspend(Request(cs, "http_openai"),
                    [tk EXCEPT !.valid = TRUE, !.pc = "awaitOpenAI"])

\* the handler from the response on (techUpdate.ts 265-309)
getTechUpdateResume(cs, t, tk, resp) ==
    LET noText == JsError("OpenAI response did not include any textual content.") IN
    IF resp.kind # "ok"
    THEN Complete(cs, t, tk, IdleTask, FALSE, "", resp.err, Escaped(techCatch(resp.err)))
    ELSE IF jsFalsy(responseText(resp))
         THEN Complete(cs, t, tk, IdleTask, FALSE, "", noText, Escaped(techCatch(noText)))
         ELSE Complete(cs, t, tk, IdleTask, TRUE, "", NoError,
                       ToolResult("undefined", techResult(responseText(resp), tk.topic)))

(***************************************************************************)
(* The state machine                                                       *)
(***************************************************************************)
Init ==
    /\ now = 0
    /\ requestCount = [second |-> 0, month |-> 0, lastReset |-> 0]
    /\ window = [start |-> 0, ok |-> 0]
    /\ httpSent = 0
    /\ task = [t \in Tasks |-> IdleTask]
    /\ last = NoLast

\* what a synchronous block of invocation t leaves behind
Commit(t, step) ==
    /\ requestCount' = step.cs.rc
    /\ window' = step.cs.win
    /\ httpSent' = step.cs.sent
    /\ task' = [task EXCEPT ![t] = step.tk]
    /\ last' = IF step.done THEN step.fin ELSE last
    /\ UNCHANGED now

\* time passes
Tick(d) ==
    /\ now + d <= MaxTime
    /\ now' = now + d
    /\ UNCHANGED <<requestCount, window, httpSent, task, last>>

\* a tools/call request reaches the search server
CallBrave(t, name, args) ==
    /\ task[t].pc = "idle"
    /\ Commit(t, braveCallTool(ClientState(<<>>), t, now, name, args))

\* the answer to the request of performWebSearch arrives
RespondWeb(t, resp) ==
    /\ task[t].pc = "awaitWeb"
    /\ Commit(t, performWebSearchResume(ClientState(task[t].events), t, task[t], resp))

\* the answer to the initial request of performLocalSearch arrives
RespondLoc(t, resp) ==
    /\ task[t].pc = "awaitLoc"
    /\ Commit(t, performLocalSearchResume(ClientState(task[t].events), t, task[t], now, resp))

\* the answer to a detail request arrives
RespondDetail(t, which, resp) ==
    /\ task[t].pc \in {"awaitDetails", "orphanDetails"}
    /\ task[t][which] = "pending"
    /\ Commit(t, detailResume(ClientState(task[t].events), t, task[t], which, resp))

\* a tools/call request reaches the weather server
CallWeather(t, name, args) ==
    /\ task[t].pc = "idle"
    /\ Commit(t, weatherCallTool(ClientState(<<>>), t, name, args))

\* the answer to the request of the forecast handler arrives
RespondForecast(t, resp) ==
    /\ task[t].pc = "awaitForecast"
    /\ Commit(t, forecastHandlerResume(ClientState(task[t].events), t, task[t], resp))

\* the get_tech_update handler is invoked
CallTechUpdate(t, topic) ==
    /\ task[t].pc = "idle"
    /\ Commit(t, getTechUpdateHandler(ClientState(<<>>), t, topic))

\* openAiClient.createResponse settles
RespondOpenAI(t, resp) ==
    /\ task[t].pc = "awaitOpenAI"
    /\ Commit(t, getTechUpdateResume(ClientState(task[t].events), t, task[t], resp))

\* the search server and the weather server
Next ==
    \/ \E d \in TickSteps : Tick(d)
    \/ \E t \in Tasks, name \in ToolNames, args \in SearchArgBags : CallBrave(t, name, args)
    \/ \E t \in Tasks, resp \in WebResponses : RespondWeb(t, resp)
    \/ \E t \in Tasks, resp \in LocResponses : RespondLoc(t, resp)
    \/ \E t \in Tasks, which \in {"poi", "desc"}, resp \in DetailResponses :
          RespondDetail(t, which, resp)
    \/ \E t \in Tasks, name \in ToolNames, args \in ForecastArgBags : CallWeather(t, name, args)
    \/ \E t \in Tasks, resp \in ForecastResponses : RespondForecast(t, resp)

Spec == Init /\ [][Next]_vars

\* a tools/list request reaches a standalone server
ListToolsStandalone(server) ==
    /\ last' = [NoLast EXCEPT !.server = server, !.handler = "listTools",
                              !.result = IF server = "brave"
                                         THEN braveStandaloneListTools
                                         ELSE weatherStandaloneListTools]
    /\ UNCHANGED <<now, requestCount, window, httpSent, task>>

\* a tools/call request reaches the standalone search server
CallBraveStandalone(t, name, args) ==
    /\ task[t].pc = "idle"
    /\ Commit(t, braveStandaloneCallTool(ClientState(<<>>), t, now, name, args))

\* a tools/call request reaches the standalone weather server
CallWeatherStandalone(t, name, args) ==
    /\ task[t].pc = "idle"
    /\ Commit(t, weatherStandaloneCallTool(ClientState(<<>>), t, name, args))

\* the servers createStandaloneServer returns
NextStandalone ==
    \/ \E d \in TickSteps : Tick(d)
    \/ \E server \in {"brave", "weather"} : ListToolsStandalone(server)
    \/ \E t \in Tasks, name \in ToolNames, args \in SearchArgBags :
          CallBraveStandalone(t, name, args)
    \/ \E t \in Tasks, resp \in WebResponses : RespondWeb(t, resp)
    \/ \E t \in Tasks, resp \in LocResponses : RespondLoc(t, resp)
    \/ \E t \in Tasks, which \in {"poi", "desc"}, resp \in DetailResponses :
          RespondDetail(t, which, resp)
    \/ \E t \in Tasks, name \in ToolNames, args \in ForecastArgBags :
          CallWeatherStandalone(t, name, args)
    \/ \E t \in Tasks, resp \in ForecastResponses : RespondForecast(t, resp)

SpecStandalone == Init /\ [][NextStandalone]_vars

\* what offset.toString() throws for a null offset (client.ts 68)
NullOffsetError == JsError("Cannot read properties of null (reading 'toString')")

\* brave_web_search {query, offset: null}: the arguments pass isWebSearchArgs,
\* which tests the query only; the defaults of search.ts 112 and client.ts 63
\* replace undefined, not null; checkRateLimit runs (client.ts 64) and line 68
\* throws before fetch is called
performWebSearchNullOffset(cs, t, tk, tnow) ==
    LET c == Check(cs, tnow) IN
    searchCatch(c, t, tk, IdleTask, IF c.ok THEN NullOffsetError ELSE RateLimitError)

\* a brave_web_search call with a null offset reaches the search server
CallWebNullOffset(t) ==
    /\ task[t].pc = "idle"
    /\ Commit(t, performWebSearchNullOffset(
                     ClientState(<<>>), t,
                     [IdleTask EXCEPT !.server = "brave", !.name = "brave_web_search",
                                      !.handler = "web", !.valid = TRUE],
                     now))

\* the search server, its callers sending a null offset as well
NextNullOffset ==
    \/ \E d \in TickSteps : Tick(d)
    \/ \E t \in Tasks, name \in ToolNames, args \in SearchArgBags : CallBrave(t, name, args)
    \/ \E t \in Tasks, resp \in WebResponses : RespondWeb(t, resp)
    \/ \E t \in Tasks, resp \in LocResponses : RespondLoc(t, resp)
    \/ \E t \in Tasks, which \in {"poi", "desc"}, resp \in DetailResponses :
          RespondDetail(t, which, resp)
    \/ \E t \in Tasks : CallWebNullOffset(t)

SpecNullOffset == Init /\ [][NextNullOffset]_vars

\* the get_tech_update handler
NextTech ==
    \/ \E t \in Tasks, topic \in TopicInputs : CallTechUpdate(t, topic)
    \/ \E t \in Tasks, resp \in TechResponses : RespondOpenAI(t, resp)

SpecTech == Init /\ [][NextTech]_vars

(***************************************************************************)
(* resolveTopic called on its own, on spellings of the registered keys     *)
(***************************************************************************)
upperChar(c) ==
    IF c \in Range(LowerCase)
    THEN UpperCase[CHOOSE i \in 1..Len(LowerCase) : LowerCase[i] = c]
    ELSE c

toUpperCase(str) == [i \in 1..Len(str) |-> upperChar(str[i])]

\* str with the characters ins put in after its first n characters
InsertAt(str, n, ins) ==
    SubSeq(str, 1, n) \o ins \o SubSeq(str, n + 1, Len(str))

\* the slugs as written and some of the keywords
TopicBases ==
    {TOPIC_DEFINITIONS[i].slug : i \in 1..Len(TOPIC_DEFINITIONS)}
    \cup {TOPIC_DEFINITIONS[i].keywords[j] : i \in 1..Len(TOPIC_DEFINITIONS), j \in 2..3}

\* spellings of a key: other casing, white space around it, punctuation and
\* other characters outside [a-z0-9] inside it, and strings with another
\* normal form (a digit added, a character dropped)
TopicSpellings(base) ==
    {base,
     toUpperCase(base),
     toLowerCase(base),
     <<" ", "\t">> \o base \o <<"\n">>,
     InsertAt(base, 2, <<"-">>),
     InsertAt(InsertAt(base, 3, <<" ">>), 1, <<"_">>),
     <<"!">> \o toUpperCase(base) \o <<"?">>,
     InsertAt(base, 1, <<"é">>),
     base \o <<"2">>,
     Tail(base)}

\* values of args.topic
TopicStrings == TopicInputs \cup UNION {TopicSpellings(base) : base \in TopicBases}

\* resolveTopic(topic) is called
ResolveTopic(topic) ==
    /\ last' = [NoLast EXCEPT !.handler = "resolveTopic", !.input = topic,
                              !.topic = resolveTopic(topic)]
    /\ UNCHANGED <<now, requestCount, window, httpSent, task>>

NextTopic == \E topic \in TopicStrings : ResolveTopic(topic)

SpecTopic == Init /\ [][NextTopic]_vars

(***************************************************************************)
(* extractCitations called on its own, on trees built from records with a  *)
(* url and the fields a label is taken from                                *)
(***************************************************************************)
UrlA == <<"h", "t", "t", "p", ":", "/", "/", "a">>
UrlB == <<"h", "t", "t", "p", "s", ":", "/", "/", "b">>

\* the fields of an object literal: a field whose value is undefined is left out
Field(key, value) == IF value = JUndefined THEN <<>> ELSE <<[key |-> key, value |-> value]>>

ObjectOf(fields) ==
    JObj([i \in 1..Len(fields) |-> fields[i].key], [i \in 1..Len(fields) |-> fields[i].value])

\* {url, label, title, name}
CitationObject(url, label, title, name) ==
    ObjectOf(Field("url", url) \o Field("label", label) \o Field("title", title)
             \o Field("name", name))

\* records with url UrlA and every choice of label, title and name
LabelledObjects ==
    {CitationObject(JStr(UrlA), label, title, name) :
        label \in {JUndefined, JStr(<<"L">>)},
        title \in {JUndefined, JStr(<<"T">>)},
        name \in {JUndefined, JStr(<<"N">>)}}

\* records whose url is a string, the empty string or a number, and whose
\* label may be the empty string or a number
CitationObjects ==
    {CitationObject(url, label, title, name) :
        url \in {JStr(UrlA), JStr(UrlB), JStr(<<>>), JNum(<<"7">>)},
        label \in {JUndefined, JStr(<<"L">>), JStr(<<>>), JNum(<<"1">>)},
        title \in {JUndefined, JStr(<<"T">>)},
        name \in {JUndefined, JStr(<<"N">>)}}

\* records met after another one: the same url without or with another
\* label, and another url
LaterObjects ==
    {CitationObject(JStr(UrlA), JUndefined, JUndefined, JUndefined),
     CitationObject(JStr(UrlA), JStr(<<"X">>), JUndefined, JUndefined),
     CitationObject(JStr(UrlB), JUndefined, JStr(<<"B">>), JUndefined)}

\* values of response.tool_outputs ?? response
CitationTrees ==
    {JNull, JStr(UrlA), JArr(<<>>), JObj(<<>>, <<>>)}
    \cup CitationObjects
    \cup {JArr(<<a, b>>) : a \in LabelledObjects, b \in LaterObjects}
    \cup {JObj(<<"citations">>, <<JArr(<<a>>)>>) : a \in CitationObjects}
    \cup {JObj(<<"source", "citations">>, <<a, JArr(<<b>>)>>) :
             a \in LabelledObjects, b \in LaterObjects}
    \cup {JObj(<<"citations", "source">>, <<JArr(<<b, JNull, JStr(UrlB)>>), a>>) :
             a \in LabelledObjects, b \in LaterObjects}
    \cup {JObj(<<"url", "citations", "output">>,
               <<JStr(UrlB), JArr(<<b>>), JObj(<<"items">>, <<JArr(<<a, b>>)>>)>>) :
             a \in LabelledObjects, b \in LaterObjects}

\* values of the text the handler passes as fallbackText
FallbackTexts ==
    {<<>>,
     <<"s", "e", "e", " ", "h", "t", "t", "p", ":", "/", "/", "a", " ", "[", "1", "]", " ", "(", "H", "T", "T", "P", "S", ":", "/", "/", "b", ")", " ", "h", "t", "t", "p", ":", "/", "/", "a">>,
     <<"[", "s", "e", "e", " ", "h", "t", "t", "p", ":", "/", "/", "a", " ", "]", " ", "h", "t", "t", "p", ":", "/", "/", "c">>}

\* extractCitations(input, fallbackText) is called
ExtractCitations(input, fallbackText) ==
    /\ last' = [NoLast EXCEPT !.handler = "extractCitations",
                              !.input = [node |-> input, fallbackText |-> fallbackText],
                              !.result = extractCitations(input, fallbackText)]
    /\ UNCHANGED <<now, requestCount, window, httpSent, task>>

NextCitations ==
    \E input \in CitationTrees, fallbackText \in FallbackTexts :
        ExtractCitations(input, fallbackText)

SpecCitations == Init /\ [][NextCitations]_vars

(***************************************************************************)
(* findFirstText called on its own, on objects with a text field, a        *)
(* content field and another field, in every field order                   *)
(***************************************************************************)
TextValues ==
    {JUndefined, JStr(<<" ", " ">>), JStr(<<" ", "t", " ">>), JNum(<<"5">>),
     JArr(<<JStr(<<"d">>)>>)}

ContentValues ==
    {JUndefined, JArr(<<>>), JArr(<<JStr(<<>>), JStr(<<" ", "c", "\n">>)>>),
     JArr(<<JObj(<<"type", "text">>, <<JStr(<<"x">>), JStr(<<"\t", "n", " ">>)>>)>>),
     JStr(<<"s">>), JObj(<<"z">>, <<JStr(<<"o">>)>>)}

OtherValues ==
    {JUndefined, JStr(<<" ", "a", " ">>), JArr(<<JNull, JStr(<<" ">>)>>)}

\* the orders in which the three fields can come
FieldOrders ==
    {<<"text", "content", "a">>, <<"a", "content", "text">>, <<"content", "a", "text">>}

\* values without any non-blank string: primitives, empty containers and
\* nested containers that hold blank strings only
BlankTrees ==
    {JNull, JUndefined, JObj(<<>>, <<>>), JArr(<<>>), JNum(<<"0">>), JNum(<<"5">>),
     JBool("true"), JBool("false"), JStr(<<>>), JStr(<<" ", "\t", "\n">>),
     JArr(<<JNull, JBool("true"), JNum(<<"5">>), JObj(<<>>, <<>>), JArr(<<JStr(<<" ">>)>>)>>),
     JObj(<<"content", "x", "text">>,
          <<JArr(<<JObj(<<"text">>, <<JStr(<<" ", " ">>)>>)>>),
            JObj(<<"y">>, <<JArr(<<JStr(<<"\n">>), JBool("false")>>)>>),
            JNull>>)}

\* values of response.output and response.data
TextTrees ==
    BlankTrees
    \cup {JStr(<<" ", "h", "i", " ">>),
          JObj(<<"n", "b", "deep">>,
               <<JNum(<<"5">>), JBool("true"),
                 JArr(<<JObj(<<"x">>, <<JArr(<<JNull, JStr(<<"\t", "w", " ", "v", "\n">>)>>)>>)>>)>>)}
    \cup {ObjectOf(Field(order[1], fields[order[1]]) \o Field(order[2], fields[order[2]])
                   \o Field(order[3], fields[order[3]])) :
             order \in FieldOrders,
             fields \in [text : TextValues, content : ContentValues, a : OtherValues]}
    \cup {JArr(<<JObj(<<"a">>, <<other>>), JObj(<<"text">>, <<text>>)>>) :
             other \in OtherValues \ {JUndefined}, text \in TextValues \ {JUndefined}}

\* findFirstText(value) is called
FindFirstText(value) ==
    /\ last' = [NoLast EXCEPT !.handler = "findFirstText", !.input = value,
                              !.result = findFirstText(value)]
    /\ UNCHANGED <<now, requestCount, window, httpSent, task>>

NextText == \E value \in TextTrees : FindFirstText(value)

SpecText == Init /\ [][NextText]_vars

(***************************************************************************)
(* The query parameters of the search requests (client.ts 63-68, 102-110,  *)
(* 127-129; search.ts 112-113, 148-149).  An optional number is <<>> when  *)
(* it is omitted and <<n>> when it is supplied.                            *)
(***************************************************************************)
Omitted == <<>>

Supplied(n) == <<n>>

\* a destructuring or parameter default: it applies to an omitted value only
orDefault(value, default) == IF value = Omitted THEN default ELSE value[1]

\* Math.min(a, b)
mathMin(a, b) == IF a < b THEN a ELSE b

DigitChars == <<"0", "1", "2", "3", "4", "5", "6", "7", "8", "9">>

RECURSIVE numberToString(_)
\* Number.prototype.toString of an integer
numberToString(n) ==
    IF n < 0 THEN "-" \o numberToString(0 - n)
    ELSE IF n < 10 THEN DigitChars[n + 1]
    ELSE numberToString(n \div 10) \o DigitChars[(n % 10) + 1]

\* the parameters performWebSearch sets on its url (client.ts 63-68)
performWebSearchUrl(count, offset) ==
    [filter |-> Undefined,
     count |-> numberToString(mathMin(orDefault(count, 10), 20)),
     offset |-> numberToString(orDefault(offset, 0))]

\* the parameters performLocalSearch sets on its url (client.ts 102-110)
performLocalSearchUrl(count) ==
    [filter |-> "locations",
     count |-> numberToString(mathMin(orDefault(count, 5), 20)),
     offset |-> Undefined]

\* the request of handleWebSearchTool (search.ts 112-113)
webSearchUrls(args) ==
    <<performWebSearchUrl(Supplied(orDefault(args.count, 10)),
                          Supplied(orDefault(args.offset, 0)))>>

\* the requests of handleLocalSearchTool (search.ts 148-149): the location
\* search and, on the fallback, performWebSearch(query, count) (client.ts 128)
localSearchUrls(args, fallback) ==
    LET count == orDefault(args.count, 5)
    IN  <<performLocalSearchUrl(Supplied(count))>>
        \o (IF fallback THEN <<performWebSearchUrl(Supplied(count), Omitted)>>
            ELSE <<>>)

CountValues == {0 - 1, 0, 1, 5, 10, 20, 21, 25}

OffsetValues == {0 - 1, 0, 1, 9, 10}

SearchNumbers ==
    [count : {Omitted} \cup {Supplied(n) : n \in CountValues},
     offset : {Omitted} \cup {Supplied(n) : n \in OffsetValues}]

\* a search tool is called with well-formed arguments and its checks pass:
\* the urls it requests
BuildUrls(name, args, fallback) ==
    /\ last' = [NoLast EXCEPT !.name = name, !.fallback = fallback,
                              !.input = args,
                              !.result = IF name = "brave_web_search"
                                         THEN webSearchUrls(args)
                                         ELSE localSearchUrls(args, fallback)]
    /\ UNCHANGED <<now, requestCount, window, httpSent, task>>

NextUrls ==
    \E name \in {"brave_web_search", "brave_local_search"}, args \in SearchNumbers :
        \E fallback \in (IF name = "brave_web_search" THEN {FALSE} ELSE BOOLEAN) :
            BuildUrls(name, args, fallback)

SpecUrls == Init /\ [][NextUrls]_vars

(***************************************************************************)
(* checkRateLimit called at arbitrary times (client.ts 42-54), with the    *)
(* times of the latest successful calls kept in last.result, newest last.  *)
(***************************************************************************)
\* half a window, and one ms more: two steps reach either side of the end
\* of a window
HalfSteps == {WindowMs \div 2, WindowMs \div 2 + 1}

\* the latest PerSecond + 1 of the times
Latest(times) ==
    IF Len(times) > PerSecond + 1
    THEN SubSeq(times, Len(times) - PerSecond, Len(times))
    ELSE times

\* this.checkRateLimit() is called at time now
CheckRateLimit ==
    LET c == Check(ClientState(<<>>), now) IN
    /\ requestCount' = c.rc
    /\ window' = c.win
    /\ last' = [last EXCEPT !.handler = "checkRateLimit",
                            !.returned = c.ok,
                            !.caught = IF c.ok THEN NoError ELSE RateLimitError,
                            !.input = now,
                            !.result = IF c.ok THEN Latest(Append(@, now)) ELSE @]
    /\ UNCHANGED <<now, httpSent, task>>

NextRate ==
    \/ \E d \in HalfSteps : Tick(d)
    \/ CheckRateLimit

SpecRate == Init /\ [][NextRate]_vars

(***************************************************************************)
(* Properties                                                              *)
(***************************************************************************)
HttpEvents == {"http_web", "http_loc", "http_poi", "http_desc"}

\* the rate states in which checkRateLimit can be called at time now: the
\* current one, and the one the first check of a synchronous block leaves
\* (detailFanOut makes two checks in one block)
CheckPositions ==
    LET c0 == ClientState(<<>>)
        c1 == Check(c0, now)
    IN {[rc |-> c0.rc, win |-> c0.win], [rc |-> c1.rc, win |-> c1.win]}

SearchHandlers == {"web", "local"}

\* C1: while the monthly counter is below perMonth, a checkRateLimit call
\* succeeds exactly when fewer than perSecond calls have succeeded in the
\* current window, where a call made more than 1000 ms after the window
\* start opens a new window: perSecond calls succeed in a window, the next
\* one in it fails, and the first call after the window succeeds again.
C1_RateWindow ==
    \A pos \in CheckPositions :
        pos.rc.month < PerMonth =>
            (checkRateLimit(pos.rc, now).ok <=> WindowAt(pos.win, now).ok < PerSecond)

\* a second window has been opened, perSecond calls succeeded in it and a
\* further call was refused
C1_Witness ==
    /\ window.start > 0
    /\ window.ok = PerSecond
    /\ now - window.start <= WindowMs
    /\ requestCount.month < PerMonth
    /\ last.events = <<"check_fail">>
    /\ ~checkRateLimit(requestCount, now).ok

EventsInOrder(ev) ==
    \A i \in 1..Len(ev) : ev[i] \in HttpEvents => i > 1 /\ ev[i - 1] = "check_ok"

\* C2: every HTTP request of the search client directly follows a successful
\* checkRateLimit of the same invocation, and an invocation whose entry
\* check failed ended with the rate-limit error without any request.
C2_CheckBeforeRequest ==
    /\ \A t \in Tasks : EventsInOrder(task[t].events)
    /\ EventsInOrder(last.events)
    /\ (/\ last.handler \in SearchHandlers
        /\ Len(last.events) > 0
        /\ last.events[1] = "check_fail") =>
            /\ last.events = <<"check_fail">>
            /\ ~last.returned
            /\ last.caught = RateLimitError

\* a local search whose fallback web search was let through as well
C2_Witness ==
    /\ last.handler = "local"
    /\ last.events = <<"check_ok", "http_loc", "check_ok", "http_web">>

\* C3 as claimed: a failing checkRateLimit leaves second, month and
\* lastReset as they were.
C3_FailureLeavesState ==
    \A pos \in CheckPositions :
        ~checkRateLimit(pos.rc, now).ok => checkRateLimit(pos.rc, now).rc = pos.rc

\* C3 as amended: a failing checkRateLimit leaves month as it was and
\* increments nothing; when the window had elapsed it has reset second to 0
\* and lastReset to now, otherwise second and lastReset are as they were.
C3_FailureOnlyResetsWindow ==
    \A pos \in CheckPositions :
        LET r == checkRateLimit(pos.rc, now) IN
        ~r.ok =>
            /\ r.rc.month = pos.rc.month
            /\ IF now - pos.rc.lastReset > WindowMs
               THEN r.rc.second = 0 /\ r.rc.lastReset = now
               ELSE r.rc = pos.rc

\* a call was refused after it had reset the window
C3_Witness ==
    /\ last.caught = RateLimitError
    /\ now > 0
    /\ requestCount.lastReset = now
    /\ requestCount.second = 0
    /\ requestCount.month = PerMonth

\* C4: a local search that got location ids, on a client whose monthly quota
\* is not used up, and none of whose detail requests was answered with a
\* failure, issues both detail requests and returns text.
C4_LocalSearchSucceeds ==
    (/\ last.handler = "local"
     /\ last.poi # "none"
     /\ last.poi # "failed"
     /\ last.desc # "failed"
     /\ requestCount.month < PerMonth) =>
        /\ last.returned
        /\ last.outcome.isError = "false"
        /\ \E i \in 1..Len(last.events) : last.events[i] = "http_poi"
        /\ \E i \in 1..Len(last.events) : last.events[i] = "http_desc"

\* the texts performWebSearch produces for the 2xx answers
WebTexts == {formatWebResults(r) : r \in {x \in WebResponses : x.kind = "ok"}}

\* what the client throws for the answers that are no 2xx response
UpstreamErrors == {responseError(f) : f \in Failures}

\* C5: a local search whose initial search found no location id returns the
\* text of the web search, as a normal result, unless upstream failed.
C5_FallbackReturnsWebText ==
    (/\ last.handler = "local"
     /\ last.fallback
     /\ last.caught \notin UpstreamErrors) =>
        /\ last.returned
        /\ last.text \in WebTexts
        /\ last.outcome = searchHandlerReturn(last.text)

Issued(ev, endpoint) == \E i \in 1..Len(ev) : ev[i] = endpoint

\* C6: once performLocalSearch has fanned out, both detail requests have been
\* issued; text is returned only when both succeeded, and a failed one fails
\* the search.
C6_FanOutFanIn ==
    /\ \A t \in Tasks :
          task[t].poi # "none" =>
              Issued(task[t].events, "http_poi") /\ Issued(task[t].events, "http_desc")
    /\ last.poi # "none" =>
          Issued(last.events, "http_poi") /\ Issued(last.events, "http_desc")
    /\ (last.handler = "local" /\ last.poi # "none" /\ last.returned) =>
          last.poi = "ok" /\ last.desc = "ok"
    /\ (last.poi = "failed" \/ last.desc = "failed") =>
          ~last.returned /\ last.outcome.isError = "true"

\* C7: whatever the argument bag and whatever the client does, a search
\* handler returns a result with exactly one text block; nothing escapes.
C7_HandlerNeverThrows ==
    last.handler \in SearchHandlers =>
        /\ last.outcome.kind = "result"
        /\ Len(last.outcome.content) = 1
        /\ last.outcome.content[1].type = "text"

\* a thrown value that is no Error was turned into a result
C7_Witness ==
    /\ last.handler \in SearchHandlers
    /\ last.caught = JsNonError("aborted")
    /\ last.outcome.kind = "result"

\* the message of a failure: .message of an Error, String(value) otherwise
FailureMessage(err) == IF err.inst THEN err.message ELSE err.str

\* C8: a search handler's result has isError=false exactly when validation
\* passed and the client returned text, and then it carries that text; in
\* every other case it has isError=true and carries the failure's message.
C8_ErrorFlagMatchesOutcome ==
    last.handler \in SearchHandlers =>
        /\ (last.outcome.isError = "false") <=> (last.valid /\ last.returned)
        /\ last.outcome.isError = "false" => last.outcome.content[1].text = last.text
        /\ last.outcome.isError # "false" =>
              /\ last.outcome.isError = "true"
              /\ last.caught.thrown
              /\ last.outcome.content[1].text = "Error: " \o FailureMessage(last.caught)

\* a web search returned the text of one result, and the handler passed it on
C8_Witness ==
    /\ last.handler = "web"
    /\ last.returned
    /\ last.outcome.isError = "false"
    /\ last.outcome.content[1].text = "Title: T\nDescription: D\nURL: U"

Dispatched(server) ==
    IF server = "brave" THEN {"brave_web_search", "brave_local_search"}
    ELSE IF server = "weather" THEN {"get_forecast"}
    ELSE {}

UnknownCall(inv) ==
    inv.server \in {"brave", "weather"} /\ inv.name \notin Dispatched(inv.server)

\* C10: a call of a name the server does not dispatch fails with a
\* MethodNotFound protocol error, returns no result, invokes no handler and
\* no client operation, and leaves the rate state as it was.
C10_UnknownToolNotFound ==
    [][(last' # last /\ UnknownCall(last')) =>
          /\ last'.outcome.kind = "throw"
          /\ last'.outcome.error.mcp
          /\ last'.outcome.error.code = "MethodNotFound"
          /\ last'.handler = "none"
          /\ last'.events = <<>>
          /\ UNCHANGED <<requestCount, httpSent>>]_vars

\* the weather server was asked for a tool of the search server
C10_Witness ==
    /\ last.server = "weather"
    /\ last.name = "brave_web_search"
    /\ last.outcome.kind = "throw"
    /\ last.outcome.error.code = "MethodNotFound"

\* an argument bag the forecast handler can take: an object, not an array,
\* whose latitude and longitude are numbers
WellFormedForecastArgs(args) ==
    args.kind = "object" /\ args.latitude = "number" /\ args.longitude = "number"

\* C11: a get_forecast call whose argument bag is missing, is no object or
\* has a latitude or longitude that is no number fails with InvalidParams
\* without invoking the forecast handler or sending any request; the handler
\* is invoked exactly for bags with both numbers.
C11_ForecastValidation ==
    /\ \A args \in ForecastArgBags :
          LET step == weatherCallTool(ClientState(<<>>), 1, "get_forecast", args) IN
          IF WellFormedForecastArgs(args)
          THEN ~step.done /\ step.tk.handler = "forecast"
          ELSE /\ step.done
               /\ step.fin.outcome.kind = "throw"
               /\ step.fin.outcome.error.mcp
               /\ step.fin.outcome.error.code = "InvalidParams"
               /\ step.fin.handler = "none"
               /\ step.cs.ev = <<>>
               /\ step.tk = IdleTask
    /\ (last.server = "weather" /\ last.name = "get_forecast" /\ last.handler = "none") =>
          /\ last.outcome.kind = "throw"
          /\ last.outcome.error.code = "InvalidParams"
          /\ last.events = <<>>
    /\ \A t \in Tasks : task[t].pc = "awaitForecast" => task[t].valid

\* a get_forecast call has been refused for its arguments
C11_Witness ==
    /\ last.server = "weather"
    /\ last.name = "get_forecast"
    /\ last.handler = "none"
    /\ last.outcome.kind = "throw"
    /\ last.outcome.error.code = "InvalidParams"

\* an argument bag the search handlers accept: an object, not an array, with
\* a string query
WellFormedSearchArgs(args) ==
    args.kind = "object" /\ args.query = "string"

\* the search handlers entered with args in the current state
SearchEntries(args) ==
    {handleWebSearchTool(ClientState(<<>>), 1, IdleTask, now, args),
     handleLocalSearchTool(ClientState(<<>>), 1, IdleTask, now, args)}

\* C12: when the argument bag of a search handler fails validation (absent,
\* null, no object, query absent or no string), no client operation is
\* called: second, month and lastReset are unchanged, no rate check is made
\* and no HTTP request is issued.
C12_InvalidArgsLeaveClient ==
    /\ \A args \in SearchArgBags : \A step \in SearchEntries(args) :
          ~WellFormedSearchArgs(args) =>
              /\ step.done
              /\ step.cs.rc = requestCount
              /\ step.cs.sent = httpSent
              /\ step.cs.ev = <<>>
              /\ ~step.fin.valid
    /\ (last.handler \in SearchHandlers /\ ~last.valid) => last.events = <<>>

\* a search call has been refused for its arguments after the client had
\* been used
C12_Witness ==
    /\ last.handler \in SearchHandlers
    /\ ~last.valid
    /\ last.events = <<>>
    /\ last.caught = JsError("Invalid arguments for brave_local_search")
    /\ requestCount.month > 0

\* C13: month never decreases, whatever the client does and however much
\* time passes; a window that elapses resets second and lastReset only (the
\* reset made by a rate check at the current time leaves month as it is),
\* and lastReset moves only when more than 1000 ms have passed since it was
\* set.
C13_MonthNeverReset ==
    [][/\ requestCount'.month >= requestCount.month
       /\ \A pos \in CheckPositions :
             /\ resetWindow(pos.rc, now).month = pos.rc.month
             /\ checkRateLimit(pos.rc, now).rc.month >= pos.rc.month
       /\ requestCount'.lastReset # requestCount.lastReset =>
             /\ now - requestCount.lastReset > WindowMs
             /\ requestCount'.lastReset = now]_vars

\* the window has been reset after calls were counted, and month has kept
\* the calls made before the reset
C13_Witness ==
    /\ requestCount.lastReset > 0
    /\ requestCount.second = 1
    /\ requestCount.month = 2

NormalForm(str) ==
    SelectSeq(toLowerCase(str), LAMBDA c : c \in Range(LowerCase) \/ c \in Digits)

\* the keys registered at startup: every keyword and every lowercased slug
RegisteredKeys ==
    UNION {Range(TOPIC_DEFINITIONS[i].keywords) \cup {toLowerCase(TOPIC_DEFINITIONS[i].slug)} :
              i \in 1..Len(TOPIC_DEFINITIONS)}

\* C15: two topic strings with the same normal form, which is a registered
\* keyword or lowercased slug, resolve to the same definition: casing, white
\* space and punctuation of the input do not change the result.
C15_ResolveIgnoresSpelling ==
    (last.handler = "resolveTopic" /\ NormalForm(last.input) \in RegisteredKeys) =>
        /\ last.topic # 0
        /\ \A other \in TopicStrings :
              NormalForm(other) = NormalForm(last.input) =>
                  resolveTopic(other) = last.topic

\* a spelling with other casing, white space and punctuation than the key
\* has been resolved to a definition
C15_Witness ==
    /\ last.handler = "resolveTopic"
    /\ last.input = <<"u", "_", "p", "c", " ", "o", "m", "i", "n", "g", "E", "v", "e", "n", "t", "s">>
    /\ last.topic = 5
    /\ resolveTopic(<<"!", "U", "P", "C", "O", "M", "I", "N", "G", "E", "V", "E", "N", "T", "S", "?">>) = 5

RECURSIVE Chars(_)
\* the string with the characters chars
Chars(chars) == IF Len(chars) = 0 THEN "" ELSE Head(chars) \o Chars(Tail(chars))

\* the slugs of the definitions, in their order
SupportedSlugs == [i \in 1..Len(TOPIC_DEFINITIONS) |-> Chars(TOPIC_DEFINITIONS[i].slug)]

\* C16: a topic whose normal form is no key of the topic index makes the
\* get_tech_update handler fail with InvalidParams, in a message that names
\* the five supported slugs, and no completion request is sent.
C16_UnsupportedTopicRefused ==
    /\ \A topic \in TopicStrings :
          NormalForm(topic) \notin RegisteredKeys =>
              LET step == getTechUpdateHandler(ClientState(<<>>), 1, topic) IN
              /\ step.done
              /\ step.fin.outcome.kind = "throw"
              /\ step.fin.outcome.error.mcp
              /\ step.fin.outcome.error.code = "InvalidParams"
              /\ step.fin.outcome.error.message =
                     "Unsupported topic for get_tech_update. Choose one of: "
                         \o Join(SupportedSlugs, ", ") \o "."
              /\ step.cs.ev = <<>>
              /\ step.tk = IdleTask
    /\ (last.handler = "tech" /\ last.topic = 0) =>
          /\ last.outcome.kind = "throw"
          /\ last.outcome.error.code = "InvalidParams"
          /\ last.events = <<>>
    /\ \A t \in Tasks : task[t].pc = "awaitOpenAI" => task[t].topic # 0

\* a call with an unsupported topic has been refused while a call with a
\* supported one waits for its completion
C16_Witness ==
    /\ last.handler = "tech"
    /\ last.topic = 0
    /\ last.outcome.error.code = "InvalidParams"
    /\ last.events = <<>>
    /\ \E t \in Tasks : task[t].pc = "awaitOpenAI"

\* the keys of definition i: its keywords and its lowercased slug
KeysOf(i) ==
    Range(TOPIC_DEFINITIONS[i].keywords) \cup {toLowerCase(TOPIC_DEFINITIONS[i].slug)}

\* C17: in the topic index every keyword and the lowercased slug of every
\* definition map to that definition; no key belongs to two definitions,
\* the slugs are pairwise different, the index holds each key once and no
\* other key, and a lookup finds the definition that owns the key.
C17_IndexMapsKeysToDefinitions ==
    /\ \A i \in 1..Len(TOPIC_DEFINITIONS) : \A k \in KeysOf(i) :
          mapHas(topicIndex, k) /\ mapGet(topicIndex, k) = i
    /\ \A i, j \in 1..Len(TOPIC_DEFINITIONS) :
          i # j =>
              /\ KeysOf(i) \cap KeysOf(j) = {}
              /\ TOPIC_DEFINITIONS[i].slug # TOPIC_DEFINITIONS[j].slug
    /\ \A m, n \in 1..Len(topicIndex) : topicIndex[m].key = topicIndex[n].key => m = n
    /\ {topicIndex[m].key : m \in 1..Len(topicIndex)} = RegisteredKeys
    /\ (last.handler = "resolveTopic" /\ last.topic # 0) =>
          NormalForm(last.input) \in KeysOf(last.topic)

\* a keyword that is not the slug has been looked up and has found its
\* definition, after which the index still holds it
C17_Witness ==
    /\ last.handler = "resolveTopic"
    /\ last.input = <<"p", "l", "a", "t", "f", "o", "r", "m", "u", "p", "d", "a", "t", "e", "s">>
    /\ last.topic = 2
    /\ mapGet(topicIndex, last.input) = 2

RECURSIVE Occurrences(_)
RECURSIVE OccurrencesIn(_)
\* the records with a string url in the order explore meets them: a record
\* itself, then the records of its citations array (inArray), then what is
\* below its field values, in field order
OccurrencesIn(items) ==
    IF Len(items) = 0 THEN <<>>
    ELSE Occurrences(Head(items)) \o OccurrencesIn(Tail(items))

Occurrences(node) ==
    IF jsFalsy(node) THEN <<>>
    ELSE IF node.t = "arr" THEN OccurrencesIn(node.items)
    ELSE IF node.t = "obj"
    THEN (IF jsField(node, "url").t = "str"
          THEN <<[record |-> node, inArray |-> FALSE]>> ELSE <<>>)
         \o (IF jsField(node, "citations").t = "arr"
             THEN LET items == jsField(node, "citations").items IN
                  [i \in 1..Len(SelectSeq(items,
                        LAMBDA item : item.t = "obj" /\ jsField(item, "url").t = "str")) |->
                      [record |-> SelectSeq(items,
                           LAMBDA item : item.t = "obj" /\ jsField(item, "url").t = "str")[i],
                       inArray |-> TRUE]]
             ELSE <<>>)
         \o OccurrencesIn(node.items)
    ELSE <<>>

UrlOf(occurrence) == jsField(occurrence.record, "url").s

\* the position of the first occurrence of url
FirstOccurrence(occurrences, url) ==
    CHOOSE k \in 1..Len(occurrences) :
        /\ UrlOf(occurrences[k]) = url
        /\ \A m \in 1..(k - 1) : UrlOf(occurrences[m]) # url

\* the label an occurrence is pushed with; an empty label stands for the url
PushedLabel(occurrence) ==
    LET label == IF occurrence.inArray THEN citationRecordLabel(occurrence.record)
                 ELSE recordLabel(occurrence.record)
    IN IF label = <<>> THEN UrlOf(occurrence) ELSE label

\* the citations are those of the first occurrences of the urls
FirstOccurrenceWins(citations, occurrences, urls) ==
    /\ \A i, j \in 1..Len(citations) : citations[i].url = citations[j].url => i = j
    /\ \A url \in urls :
          \E i \in 1..Len(citations) :
              /\ citations[i].url = url
              /\ citations[i].label = PushedLabel(occurrences[FirstOccurrence(occurrences, url)])
    /\ urls # {} => {citations[i].url : i \in 1..Len(citations)} = urls

\* C18 as stated: no two citations have the same url, and for every url of
\* a record in the tree exactly one citation is kept, that of the first
\* occurrence of the url in traversal order, with that occurrence's label.
C18_EveryUrlKeptOnce ==
    last.handler = "extractCitations" =>
        LET occurrences == Occurrences(last.input.node) IN
        FirstOccurrenceWins(last.result, occurrences,
                            {UrlOf(occurrences[k]) : k \in 1..Len(occurrences)})

\* C18 as amended: no two citations have the same url, and for every
\* non-empty url of a record in the tree exactly one citation is kept, that
\* of the first occurrence of the url in traversal order (a record, then the
\* items of its citations array, then its field values), with the label
\* pushed at that occurrence; the citations are in the order of these first
\* occurrences.  A record whose url is the empty string yields no citation.
C18_NonEmptyUrlKeptOnce ==
    last.handler = "extractCitations" =>
        LET occurrences == Occurrences(last.input.node)
            urls == {UrlOf(occurrences[k]) : k \in 1..Len(occurrences)} \ {<<>>}
        IN /\ FirstOccurrenceWins(last.result, occurrences, urls)
           /\ \A i \in 1..Len(last.result) : last.result[i].url # <<>>
           /\ urls # {} =>
                 \A i, j \in 1..Len(last.result) :
                     i < j => FirstOccurrence(occurrences, last.result[i].url)
                                  < FirstOccurrence(occurrences, last.result[j].url)

\* [{url: a, title: 'T'}, {url: a}] has yielded the one citation {label: 'T', url: a}
C18_Witness ==
    /\ last.handler = "extractCitations"
    /\ last.input.node =
           JArr(<<CitationObject(JStr(UrlA), JUndefined, JStr(<<"T">>), JUndefined),
                  CitationObject(JStr(UrlA), JUndefined, JUndefined, JUndefined)>>)
    /\ last.result = <<[label |-> <<"T">>, url |-> UrlA]>>

\* the label the preference label, title, name, url gives a record
PreferredLabel(record) ==
    IF jsField(record, "label").t = "str" THEN jsField(record, "label").s
    ELSE IF jsField(record, "title").t = "str" THEN jsField(record, "title").s
    ELSE IF jsField(record, "name").t = "str" THEN jsField(record, "name").s
    ELSE jsField(record, "url").s

\* C19: the citation kept for a record with a string url, an item of a
\* citations array included, has the record's label if it has one,
\* otherwise its title, otherwise its name, otherwise the url (stated for
\* the first occurrence of a non-empty url; records whose label is the empty
\* string are left aside).
C19_LabelPreference ==
    last.handler = "extractCitations" =>
        LET occurrences == Occurrences(last.input.node) IN
        \A k \in 1..Len(occurrences) :
            (/\ UrlOf(occurrences[k]) # <<>>
             /\ jsField(occurrences[k].record, "label") # JStr(<<>>)
             /\ FirstOccurrence(occurrences, UrlOf(occurrences[k])) = k) =>
                \E i \in 1..Len(last.result) :
                    /\ last.result[i].url = UrlOf(occurrences[k])
                    /\ last.result[i].label = PreferredLabel(occurrences[k].record)

RECURSIVE AllTexts(_)
RECURSIVE AllTextsIn(_)
\* the non-blank strings of a value, trimmed, in priority order: for an
\* object its own text field, then what its content array holds, then what
\* its field values hold in field order; for an array what its items hold
AllTextsIn(items) ==
    IF Len(items) = 0 THEN <<>>
    ELSE AllTexts(Head(items)) \o AllTextsIn(Tail(items))

AllTexts(node) ==
    IF node.t = "str" THEN (IF trim(node.s) # <<>> THEN <<trim(node.s)>> ELSE <<>>)
    ELSE IF node.t = "arr" THEN AllTextsIn(node.items)
    ELSE IF node.t = "obj"
    THEN (IF jsField(node, "text").t = "str" THEN AllTexts(jsField(node, "text")) ELSE <<>>)
         \o (IF jsField(node, "content").t = "arr"
             THEN AllTexts(jsField(node, "content")) ELSE <<>>)
         \o AllTextsIn(node.items)
    ELSE <<>>

\* C20: findFirstText returns the first non-blank string in priority order
\* (an object's own text field, then its content array, then its field
\* values in field order; arrays in order), trimmed, and nothing when there
\* is none: a deeper or later string never wins over an earlier one.
C20_FirstTextByPriority ==
    last.handler = "findFirstText" =>
        last.result = IF AllTexts(last.input) = <<>> THEN JUndefined
                      ELSE JStr(Head(AllTexts(last.input)))

\* the text field, which comes last in the object, has won over an earlier
\* field and over the content array
C20_Witness ==
    /\ last.handler = "findFirstText"
    /\ last.input = JObj(<<"a", "content", "text">>,
                         <<JStr(<<" ", "a", " ">>),
                           JArr(<<JStr(<<>>), JStr(<<" ", "c", "\n">>)>>),
                           JStr(<<" ", "t", " ">>)>>)
    /\ last.result = JStr(<<"t">>)

RECURSIVE StringsOf(_)
\* the strings a JSON value holds at any depth
StringsOf(node) ==
    IF node.t = "str" THEN {node.s}
    ELSE IF node.t \in {"arr", "obj"}
    THEN UNION {StringsOf(node.items[i]) : i \in 1..Len(node.items)}
    ELSE {}

\* a string with a character that is no white space
NonBlank(str) == \E i \in 1..Len(str) : str[i] \notin WhiteSpace

\* C21: on every finite JSON value findFirstText ends with a value, never
\* with a throw: either absent, or a non-empty string without white space at
\* its start and end; it is absent for null, for {} and for every tree that
\* holds no non-blank string, and a string when the tree holds one.
C21_TextAbsentOrTrimmed ==
    last.handler = "findFirstText" =>
        /\ \/ last.result = JUndefined
           \/ /\ last.result.t = "str"
              /\ Len(last.result.s) > 0
              /\ last.result.s[1] \notin WhiteSpace
              /\ last.result.s[Len(last.result.s)] \notin WhiteSpace
        /\ (last.result = JUndefined) <=> (\A str \in StringsOf(last.input) : ~NonBlank(str))
        /\ last.input \in {JNull, JObj(<<>>, <<>>)} => last.result = JUndefined

\* a nested tree of objects and arrays whose strings are all blank has
\* yielded nothing
C21_Witness ==
    /\ last.handler = "findFirstText"
    /\ last.input.t = "obj"
    /\ StringsOf(last.input) = {<<" ", " ">>, <<"\n">>}
    /\ last.result = JUndefined

\* the three-line block of one result; a missing field is shown empty
WebBlock(result) ==
    "Title: " \o (IF result.title = Undefined THEN "" ELSE result.title)
    \o "\nDescription: " \o (IF result.description = Undefined THEN "" ELSE result.description)
    \o "\nURL: " \o (IF result.url = Undefined THEN "" ELSE result.url)

RECURSIVE WebText(_)
\* the blocks of the results in their order, one blank line between two
\* blocks and nothing after the last
WebText(results) ==
    IF Len(results) = 0 THEN ""
    ELSE IF Len(results) = 1 THEN WebBlock(results[1])
    ELSE WebText(SubSeq(results, 1, Len(results) - 1)) \o "\n\n"
             \o WebBlock(results[Len(results)])

\* C22: performWebSearch turns a 2xx answer with n results into n blocks
\* 'Title: T\nDescription: D\nURL: U' in upstream order, joined by one blank
\* line; one result gives exactly its block, an empty or missing results
\* list the empty string; and the handler returns that text.
C22_WebResultBlocks ==
    /\ \A resp \in WebResponses :
          resp.kind = "ok" =>
              formatWebResults(resp) =
                  WebText(IF resp.hasWeb THEN resp.results ELSE <<>>)
    /\ WebText(<<R1>>) = "Title: T\nDescription: D\nURL: U"
    /\ (last.handler = "web" /\ last.returned) =>
          /\ last.text \in {WebText(results) : results \in {<<>>, <<R1>>, <<R1, R2>>}}
          /\ last.outcome = ToolResult("false", last.text)

\* a web search has returned the two blocks of a two-result answer
C22_Witness ==
    /\ last.handler = "web"
    /\ last.returned
    /\ last.text = "Title: T\nDescription: D\nURL: U\n\nTitle: T2\nDescription: \nURL: U2"

\* the decimal texts of the numbers lo..hi
Decimals(lo, hi) == {numberToString(n) : n \in lo..hi}

\* C23: every request of brave_web_search and brave_local_search carries a
\* count within 1..20 and, for a web search, an offset within 0..9, whatever
\* numbers the caller supplies; an omitted count or offset is sent as its
\* default, 10 and 0 for a web search and 5 for a local search.
C23_CountAndOffsetInRange ==
    \A i \in 1..Len(last.result) :
        /\ last.result[i].count \in Decimals(1, 20)
        /\ last.result[i].filter = Undefined => last.result[i].offset \in Decimals(0, 9)
        /\ (i = 1 /\ last.input.count = Omitted) =>
              last.result[i].count = (IF last.name = "brave_web_search" THEN "10" ELSE "5")
        /\ (i = 1 /\ last.name = "brave_web_search" /\ last.input.offset = Omitted) =>
              last.result[i].offset = "0"

\* the part of C23 about omitted values: the defaults are what is sent, and
\* no count above 20 is sent
C23_DefaultsAndUpperBound ==
    \A i \in 1..Len(last.result) :
        /\ last.result[i].count \in Decimals(0 - 1, 20)
        /\ last.input.count = Omitted =>
              last.result[i].count = (IF last.name = "brave_web_search" THEN "10" ELSE "5")
        /\ (last.name = "brave_web_search" /\ last.input.offset = Omitted) =>
              last.result[i].offset = "0"

\* the bounds of the two counters of a rate state
CountersInBounds(rc) ==
    /\ 0 <= rc.second
    /\ rc.second <= PerSecond
    /\ rc.second <= rc.month
    /\ rc.month <= PerMonth

\* C24: in every reachable state of a BraveClient 0 <= second <= perSecond,
\* second <= month and month <= perMonth, between two checks of one block as
\* well; a checkRateLimit call that succeeds adds exactly one to the monthly
\* counter and exactly one to the per-second counter (counted from 0 when the
\* call opens a new window), and a call that fails adds nothing.
C24_CounterBounds ==
    /\ CountersInBounds(requestCount)
    /\ \A pos \in CheckPositions :
          LET r == checkRateLimit(pos.rc, now)
              reset == now - pos.rc.lastReset > WindowMs
          IN  /\ CountersInBounds(pos.rc)
              /\ CountersInBounds(r.rc)
              /\ r.ok => /\ r.rc.month = pos.rc.month + 1
                         /\ r.rc.second = (IF reset THEN 0 ELSE pos.rc.second) + 1
              /\ ~r.ok => /\ r.rc.month = pos.rc.month
                          /\ r.rc.second = (IF reset THEN 0 ELSE pos.rc.second)

\* successful checks have brought the monthly counter to two and, after a
\* window reset, the per-second counter to one again
C24_Witness ==
    /\ requestCount.month = 2
    /\ requestCount.second = 1
    /\ requestCount.lastReset > 0
    /\ httpSent = 2

\* the number of entries of ev that are in the set which
CountOf(ev, which) == Cardinality({i \in 1..Len(ev) : ev[i] \in which})

\* the quota units an invocation has consumed, and the requests it has issued
Consumed(ev) == CountOf(ev, {"check_ok"})

Requested(ev) == CountOf(ev, HttpEvents)

\* C25: the number of HTTP requests a client has issued equals its month
\* counter, each successful consume being followed by exactly one request
\* and a failed request refunding nothing, so that at most perMonth requests
\* are issued; a local search that has found location ids consumes three
\* units and a local search that fell back to the web search two (while the
\* monthly budget lasts).
C25_RequestsEqualMonth ==
    /\ httpSent = requestCount.month
    /\ httpSent <= PerMonth
    /\ \A t \in Tasks : Requested(task[t].events) = Consumed(task[t].events)
    /\ Requested(last.events) = Consumed(last.events)
    /\ (/\ last.handler = "local"
        /\ last.poi # "none"
        /\ requestCount.month < PerMonth) => Consumed(last.events) = 3
    /\ (/\ last.handler = "local"
        /\ last.fallback
        /\ requestCount.month < PerMonth) => Consumed(last.events) = 2

\* the present and later times at which a call may be made
LaterTimes == {now + d : d \in {0, 1, WindowMs, WindowMs + 1, 1000 * WindowMs}}

\* the search tools called at time t in the current state of the client
SearchCallsAt(t) ==
    {braveCallTool(ClientState(<<>>), 1, t, name, args) :
         name \in {"brave_web_search", "brave_local_search"},
         args \in {a \in SearchArgBags : WellFormedSearchArgs(a)}}

\* C26: once the monthly counter has reached perMonth it stays there, and
\* from then on every checkRateLimit call fails however much time has
\* passed: every later brave_web_search or brave_local_search call that
\* reaches the client returns the in-band error 'Rate limit exceeded' and
\* no HTTP request is issued any more.
C26_MonthlyExhaustionPermanent ==
    [][requestCount.month >= PerMonth =>
          /\ requestCount'.month = requestCount.month
          /\ httpSent' = httpSent
          /\ \A t \in LaterTimes :
                /\ \A pos \in CheckPositions : ~checkRateLimit(pos.rc, t).ok
                /\ \A step \in SearchCallsAt(t) :
                      /\ step.done
                      /\ step.fin.outcome = ToolResult("true", "Error: Rate limit exceeded")
                      /\ step.cs.sent = httpSent
                      /\ step.cs.rc.month = requestCount.month
          /\ (last' # last /\ last'.handler \in SearchHandlers /\ last'.valid
                /\ last'.events # <<>> /\ last'.events[Len(last'.events)] = "check_fail") =>
                    last'.outcome = ToolResult("true", "Error: Rate limit exceeded")]_vars

\* the month is used up, and a search call made more than a window later
\* has been refused: its failed check opened a new window
C26_Witness ==
    /\ requestCount.month = PerMonth
    /\ requestCount.second = 0
    /\ requestCount.lastReset = now
    /\ last.handler \in SearchHandlers
    /\ last.events = <<"check_fail">>
    /\ last.outcome = ToolResult("true", "Error: Rate limit exceeded")

\* C27: in every time interval of at most 1000 ms at most perSecond
\* checkRateLimit calls succeed, that is, perSecond + 1 successive successful
\* calls never lie within 1000 ms of each other.
C27_RateBoundedInEveryInterval ==
    Len(last.result) = PerSecond + 1 =>
        last.result[PerSecond + 1] - last.result[1] > WindowMs

\* the names of a tool list
NamesOf(list) == {list[i].name : i \in DOMAIN list}

\* no two descriptors of the list have the same name
DistinctNames(list) ==
    \A i, j \in DOMAIN list : list[i].name = list[j].name => i = j

\* the handler a call was routed to, "none" when it was routed to none
RoutedTo(step) == IF step.done THEN step.fin.handler ELSE step.tk.handler

\* the call ended in the default branch of the switch
NotFound(step, name) ==
    /\ step.done
    /\ step.fin.outcome = Escaped(McpError("MethodNotFound", "Unknown tool: " \o name))

\* the handler that belongs to a listed tool
OwnHandler(name) ==
    CASE name = "brave_web_search" -> "web"
      [] name = "brave_local_search" -> "local"
      [] name = "get_forecast" -> "forecast"
      [] OTHER -> "none"

\* C28: on each server the tool list and the routing agree and do not
\* change: listTools returns the same descriptors in every state, with
\* distinct names; callTool routes every listed name to the handler of that
\* tool and never to MethodNotFound, and every other name to MethodNotFound;
\* the standalone server of a service has the list and the routing of the
\* server class.
C28_ListAndRoutingAgree ==
    /\ DistinctNames(braveListTools) /\ DistinctNames(weatherListTools)
    /\ braveStandaloneListTools = braveListTools
    /\ weatherStandaloneListTools = weatherListTools
    /\ OwnHandler("get_tech_update") = "none"
    /\ \A name \in ToolNames, args \in SearchArgBags :
          LET class == braveCallTool(ClientState(<<>>), 1, now, name, args)
              alone == braveStandaloneCallTool(ClientState(<<>>), 1, now, name, args)
          IN  /\ alone = class
              /\ name \in NamesOf(braveListTools) <=> ~NotFound(class, name)
              /\ name \in NamesOf(braveListTools) => RoutedTo(class) = OwnHandler(name)
              /\ name \notin NamesOf(braveListTools) => RoutedTo(class) = "none"
    /\ \A name \in ToolNames, args \in ForecastArgBags :
          LET class == weatherCallTool(ClientState(<<>>), 1, name, args)
              alone == weatherStandaloneCallTool(ClientState(<<>>), 1, name, args)
          IN  /\ alone = class
              /\ name \in NamesOf(weatherListTools) <=> ~NotFound(class, name)
              /\ (name \in NamesOf(weatherListTools) /\ ~forecastArgsInvalid(args)) =>
                    RoutedTo(class) = OwnHandler(name)
              /\ name \notin NamesOf(weatherListTools) => RoutedTo(class) = "none"
    /\ last.handler = "listTools" =>
          last.result = (IF last.server = "brave" THEN braveListTools ELSE weatherListTools)
    /\ (last.handler \in SearchHandlers \cup {"forecast"}) =>
          /\ last.handler = OwnHandler(last.name)
          /\ last.name \in NamesOf(IF last.server = "brave" THEN braveListTools
                                   ELSE weatherListTools)

\* the standalone search server has listed its tools after use, while a
\* local search it routed is waiting for its answer
C28_Witness ==
    /\ last.handler = "listTools"
    /\ last.server = "brave"
    /\ last.result = braveStandaloneListTools
    /\ requestCount.month > 0
    /\ \E t \in Tasks : task[t].name = "brave_local_search" /\ task[t].pc = "awaitLoc"

====
